---------------------------- MODULE Spec2Model ----------------------------
(***************************************************************************)
(* Model of the forecast-accuracy engine of set_schedule_forecast_horizon: *)
(*   - fetch_sample_data_and_discreteness / calculate_time_interval        *)
(*     (src/services/set_forecast_service.py)            -- SpecSample     *)
(*   - create_forecast_config / get_seconds                                *)
(*     (src/services/set_forecast_service.py)            -- SpecCreate     *)
(*   - fetch_metrics_by_date / calculate_metrics                           *)
(*     (src/services/metrix_service.py)                  -- SpecMetrics    *)
(*   - data_fetcher / method_metrix_table / metrix_all                     *)
(*     (src/services/get_forecast_service.py,                              *)
(*      src/utils/calc_error_metrix.py)                  -- SpecFetcher    *)
(* Timestamps are integers (seconds).  A raised exception is a value       *)
(* [exc |-> <name>, ...]; an HTTP outcome is [status |-> <code>, ...].     *)
(***************************************************************************)
EXTENDS Integers, Sequences, FiniteSets, TLC

VARIABLES
    \* ---- fetch_sample_data_and_discreteness ----
    sample_table,     \* timestamps of the rows of the source table, in storage order
    sample_pc,        \* position of the request
    sample_data,      \* rows returned by fetch_postgres_sample_data
    sample_resp,      \* what the caller of fetch_sample_data_and_discreteness gets
    interval_call,    \* result of a direct call of calculate_time_interval
    \* ---- create_forecast_config ----
    create_pc,        \* position of the request
    create_req,       \* payload and organization of the request in progress
    create_loc,       \* locals: count_data, horizon inputs, count_time_points_predict
    create_resp,      \* what the caller of create_forecast_config gets
    nreq,             \* number of create requests begun
    \* ---- fetch_metrics_by_date ----
    metrics_pc,       \* position of the request
    metrics_req,      \* organization, data_name, start_date, end_date
    methods_predict,  \* methods_predict of the stored configuration (method names)
    df_merged,        \* the running frame
    method_i,         \* index of the next method of the loop of line 232
    metrics_resp,     \* what the caller of fetch_metrics_by_date gets
    \* ---- data_fetcher ----
    fetcher_pc,       \* position of the request
    fetcher_req,      \* organization and data_name of the request
    df_last_real_data,\* the newest rows of the source table, ascending
    fetcher_i,        \* index of the next method of the loop of line 320
    data_result,      \* the chart segments of each method
    metrics_table,    \* metrics_table_XGBoost and metrics_table_LSTM
    table_to_download,\* df_table_to_download
    fetcher_resp,     \* what the caller of data_fetcher gets
    \* ---- fetch_possible_date_for_metrix ----
    dates_pc,         \* position of the request
    dates_req,        \* organization and data_name of the request
    max_date,         \* max_date of the source table (<<>>: None)
    earliest_date,    \* earliest_date of the loop of line 92 (<<>>: None)
    dates_i,          \* index of the next method of the loop of line 92
    dates_resp,       \* what the caller of fetch_possible_date_for_metrix gets
    \* ---- get_connection_tables, get_connection_table_columns ----
    tables_pc,        \* position of the request
    tables_req,       \* operation, connection, organization, table of the request
    tables_resp,      \* what the caller gets
    engines,          \* engines created by create_async_engine and not disposed
    \* ---- concurrent requests on the stored configurations ----
    crud_procs,       \* operation, position, arguments and answer of each request
    crud_nreq,        \* number of requests begun
    \* ---- TokenValidator ----
    tokens_list,      \* the tokens of the service in the file of TOKENS_LIST
    valid_tokens,     \* TokenValidator.valid_tokens (loaded = FALSE: None)
    credentials,      \* the token each request presents
    \* ---- reads of the data stores ----
    last_read,        \* the latest read: operation, source, outcome
    \* ---- organization data stores ----
    real_table,       \* rows [t, v] of the source table
    pred_tables,      \* rows [t, v] of each method's target table
    \* ---- application database ----
    connections,      \* ConnectionSettings rows
    forecasts         \* ScheduleForecasting rows

sampleVars == <<sample_table, sample_pc, sample_data, sample_resp, interval_call>>

createVars == <<create_pc, create_req, create_loc, create_resp, nreq>>

metricsVars == <<metrics_pc, metrics_req, methods_predict, df_merged, method_i, metrics_resp>>

fetcherVars == <<fetcher_pc, fetcher_req, df_last_real_data, fetcher_i, data_result,
                 metrics_table, table_to_download, fetcher_resp>>

datesVars == <<dates_pc, dates_req, max_date, earliest_date, dates_i, dates_resp>>

tablesVars == <<tables_pc, tables_req, tables_resp, engines>>

crudVars == <<crud_procs, crud_nreq>>

tokenVars == <<tokens_list, valid_tokens, credentials>>

storeVars == <<real_table, pred_tables>>

dbVars == <<connections, forecasts>>

vars == <<sample_table, sample_pc, sample_data, sample_resp, interval_call,
          create_pc, create_req, create_loc, create_resp, nreq,
          metrics_pc, metrics_req, methods_predict, df_merged, method_i, metrics_resp,
          fetcher_pc, fetcher_req, df_last_real_data, fetcher_i, data_result,
          metrics_table, table_to_download, fetcher_resp,
          dates_pc, dates_req, max_date, earliest_date, dates_i, dates_resp,
          tables_pc, tables_req, tables_resp, engines,
          crud_procs, crud_nreq, tokens_list, valid_tokens, credentials, last_read,
          real_table, pred_tables,
          connections, forecasts>>

-----------------------------------------------------------------------------
(* Generic helpers                                                         *)

Abs(x) == IF x < 0 THEN -x ELSE x

Min2(a, b) == IF a <= b THEN a ELSE b

RECURSIVE SeqSum(_)
SeqSum(s) == IF s = <<>> THEN 0 ELSE Head(s) + SeqSum(Tail(s))

SeqToSet(s) == {s[i] : i \in DOMAIN s}

SetMax(S) == CHOOSE x \in S : \A y \in S : y <= x

SetMin(S) == CHOOSE x \in S : \A y \in S : x <= y

\* All sequences over S of length 0..n
RECURSIVE SeqsUpTo(_, _)
SeqsUpTo(S, n) ==
    IF n = 0 THEN {<<>>}
    ELSE LET shorter == SeqsUpTo(S, n - 1)
         IN  shorter \cup {Append(s, x) : s \in {t \in shorter : Len(t) = n - 1}, x \in S}

\* Python's round(x) for x = num/den (den > 0, num >= 0): nearest integer,
\* a tie going to the even neighbour.
RoundHalfEven(num, den) ==
    LET q == num \div den
        r == num % den
    IN  IF 2 * r < den THEN q
        ELSE IF 2 * r > den THEN q + 1
        ELSE IF q % 2 = 0 THEN q ELSE q + 1

-----------------------------------------------------------------------------
(* Bounds and input universes                                              *)

MaxSample == 3

SampleTimes == {0, 1, 600, 1200, 1201}

-----------------------------------------------------------------------------
(* calculate_time_interval                                                 *)

\* df.sort_values(time_column): ascending insertion of one key
RECURSIVE InsertAsc(_, _)
InsertAsc(x, s) ==
    IF s = <<>> THEN <<x>>
    ELSE IF x <= Head(s) THEN <<x>> \o s
    ELSE <<Head(s)>> \o InsertAsc(x, Tail(s))

\* (mutant of SortAsc: the window is left in its input order)
SortAscNoSort(s) == s

RECURSIVE SortAsc(_)
SortAsc(s) == IF s = <<>> THEN <<>> ELSE InsertAsc(Head(s), SortAsc(Tail(s)))

\* ORDER BY time DESC
Reverse(s) == [i \in 1..Len(s) |-> s[Len(s) + 1 - i]]

SortDesc(s) == Reverse(SortAsc(s))

\* df[time_column].diff().dt.total_seconds().iloc[1:]
Diffs(s) == [i \in 1..(Len(s) - 1) |-> s[i + 1] - s[i]]

\* (mutant of calculate_time_interval: the NaN mean of an empty series is
\*  reported as 0 instead of raising)
calculate_time_interval_nan0(df) ==
    LET d == Diffs(SortAsc(df))
    IN  [exc |-> "none",
         val |-> IF Len(d) = 0 THEN 0 ELSE RoundHalfEven(SeqSum(d), Len(d))]

\* The mean of an empty series is NaN and round(NaN) raises ValueError.
\* Over the ascending-sorted window the differences are >= 0.
calculate_time_interval(df) ==
    LET sorted == SortAsc(df)
        d      == Diffs(sorted)
    IN  IF Len(d) = 0
        THEN [exc |-> "ValueError", val |-> 0]
        ELSE LET total == SeqSum(d)
             IN  [exc |-> "none",
                  val |-> IF total >= 0 THEN RoundHalfEven(total, Len(d))
                          ELSE -RoundHalfEven(-total, Len(d))]

-----------------------------------------------------------------------------
(* Application database: ConnectionSettings                                *)

OrgIds == {1, 2}

\* the user of a request carries an organization or none (0)
UserOrgs == {0} \cup OrgIds

ConnIds == {1, 2, 3, 4}

\* str.lower() on the schema names that occur
Lower(schema) == IF schema = "PostgreSQL" THEN "postgresql" ELSE schema

InitConnections ==
    { [id |-> 1, organization_id |-> 1, connection_schema |-> "PostgreSQL", is_deleted |-> FALSE],
      [id |-> 2, organization_id |-> 1, connection_schema |-> "MySQL",      is_deleted |-> FALSE],
      [id |-> 3, organization_id |-> 2, connection_schema |-> "PostgreSQL", is_deleted |-> FALSE],
      [id |-> 4, organization_id |-> 1, connection_schema |-> "PostgreSQL", is_deleted |-> TRUE] }

\* select(ConnectionSettings).where(id == connection_id, organization_id == org,
\*                                  is_deleted IS NOT TRUE)
SelectConnection(connection_id, organization_id) ==
    { c \in connections : /\ c.id = connection_id
                          /\ c.organization_id = organization_id
                          /\ ~c.is_deleted }

-----------------------------------------------------------------------------
(* Idle values of the requests a specification does not run                *)

NoPayload == [organization_id |-> 0, connection_id |-> 0, data_name |-> "",
              time_column |-> "", target_column |-> ""]

NoLocals == [count_data |-> 0, horizon_count |-> 0, time_interval |-> "",
             discreteness |-> 0, count_time_points_predict |-> 0]

CreateIdle ==
    /\ create_pc = "idle"
    /\ create_req = NoPayload
    /\ create_loc = NoLocals
    /\ create_resp = [status |-> 0, detail |-> ""]
    /\ nreq = 0

EmptyFrame == [cols |-> <<>>, rows |-> <<>>]

NoMetricsResp == [status |-> 0, detail |-> "", data |-> <<>>]

MetricsIdle ==
    /\ metrics_pc = "idle"
    /\ metrics_req = [organization_id |-> 0, data_name |-> "", start_date |-> "", end_date |-> ""]
    /\ methods_predict = <<>>
    /\ df_merged = EmptyFrame
    /\ method_i = 0
    /\ metrics_resp = NoMetricsResp
    /\ real_table = <<>>
    /\ pred_tables = [m \in {"XGBoost", "LSTM"} |-> <<>>]

NoDataResult ==
    [last_real_data |-> <<>>, actual_prediction_xgboost |-> <<>>,
     actual_prediction_lstm |-> <<>>]

NoMetrixTables == [m \in {"XGBoost", "LSTM"} |-> <<>>]

NoTableToDownload == [rows |-> <<>>, lstm |-> FALSE]

\* no payload
NoView ==
    [data |-> NoDataResult, last_know_data |-> <<>>,
     table_to_download |-> NoTableToDownload, metrix_tables |-> NoMetrixTables]

NoFetcherResp == [status |-> 0, detail |-> "", view |-> NoView]

FetcherIdle ==
    /\ fetcher_pc = "idle"
    /\ fetcher_req = [organization_id |-> 0, data_name |-> ""]
    /\ df_last_real_data = <<>>
    /\ fetcher_i = 0
    /\ data_result = NoDataResult
    /\ metrics_table = NoMetrixTables
    /\ table_to_download = NoTableToDownload
    /\ fetcher_resp = NoFetcherResp

NoDatesResp == [status |-> 0, detail |-> "", earliest_date |-> <<>>, max_date |-> <<>>,
                start_default_date |-> <<>>, end_default_date |-> <<>>]

DatesIdle ==
    /\ dates_pc = "idle"
    /\ dates_req = [organization_id |-> 0, data_name |-> ""]
    /\ max_date = <<>>
    /\ earliest_date = <<>>
    /\ dates_i = 0
    /\ dates_resp = NoDatesResp

NoTablesResp == [status |-> 0, detail |-> "", names |-> {}]

TablesIdle ==
    /\ tables_pc = "idle"
    /\ tables_req = [op |-> "", connection_id |-> 0, org_id |-> 0, table_name |-> ""]
    /\ tables_resp = NoTablesResp
    /\ engines = 0

\* no read of a data store has been made
CrudProcs == {1, 2}

\* a request slot that serves nothing
NoCall ==
    [op |-> "", pc |-> "idle", org |-> 0, id |-> 0, data_name |-> "",
     target_column |-> "", connection_schema |-> "", connection_name |-> "",
     db_name |-> "", status |-> 0, detail |-> "", rows |-> {}]

CrudIdle ==
    /\ crud_procs = [p \in CrudProcs |-> NoCall]
    /\ crud_nreq = 0

Requests == {"dashboard", "metrics"}

\* line 15: valid_tokens = None
NoTokens == [loaded |-> FALSE, tokens |-> {}]

TokenIdle ==
    /\ tokens_list = {}
    /\ valid_tokens = NoTokens
    /\ credentials = [r \in Requests |-> ""]

\* requests that present a token run side by side on one data store, whose
\* tables keep their contents and answer every query
StoreFixed == \A r \in Requests : credentials[r] # ""

\* the contents a read may meet in a table: what is stored when the store is
\* fixed, any contents of the universe otherwise
StoredOr(universe, stored) == IF StoreFixed THEN {stored} ELSE universe

\* whether the query of a read may fail
ReadFailures == IF StoreFixed THEN {FALSE} ELSE BOOLEAN

NoRead == [op |-> "", src |-> "", db_fails |-> FALSE, matched |-> 0, exc |-> "none", nrows |-> 0]

-----------------------------------------------------------------------------
(* fetch_postgres_sample_data, fetch_sample_data_and_discreteness          *)

SampleLimit == 100

NoResp == [status |-> 0, detail |-> "", discreteness |-> <<>>]

HttpError(code, msg) == [status |-> code, detail |-> msg, discreteness |-> <<>>]

Take(s, n) == SubSeq(s, 1, Min2(n, Len(s)))

\* Rows of the query ORDER BY time DESC LIMIT limit; an empty result raises
\* HTTPException(404) inside the try, which `except Exception` turns into 500;
\* db_fails stands for any failure of the connection or the query.
fetch_postgres_sample_data(table, db_fails) ==
    LET rows == Take(SortDesc(table), SampleLimit)
    IN  IF db_fails \/ rows = <<>>
        THEN [exc |-> "HTTPException500", rows |-> <<>>]
        ELSE [exc |-> "none", rows |-> rows]

\* lines 116-129: connection lookup and schema check
SampleLookup ==
    /\ sample_pc = "start"
    /\ \E connection_id \in ConnIds, organization_id \in OrgIds :
         LET found == SelectConnection(connection_id, organization_id)
         IN  IF found = {}
             THEN /\ sample_pc' = "error"
                  /\ sample_resp' = HttpError(404, "connection not found")
             ELSE LET connection == CHOOSE c \in found : TRUE
                  IN  IF Lower(connection.connection_schema) # "postgresql"
                      THEN /\ sample_pc' = "error"
                           /\ sample_resp' = HttpError(400, "schema not supported")
                      ELSE /\ sample_pc' = "fetch"
                           /\ sample_resp' = sample_resp
    /\ UNCHANGED <<crudVars, tokenVars, sample_table, sample_data, interval_call, createVars, metricsVars, storeVars, dbVars, fetcherVars, datesVars, tablesVars, last_read>>

\* lines 131-145: the sample read
SampleFetch ==
    /\ sample_pc = "fetch"
    /\ \E db_fails \in BOOLEAN :
         LET got == fetch_postgres_sample_data(sample_table, db_fails)
         IN  IF got.exc # "none" \/ got.rows = <<>>
             THEN /\ sample_pc' = "error"
                  /\ sample_resp' = HttpError(500, "could not get data")
                  /\ sample_data' = sample_data
             ELSE /\ sample_pc' = "calc"
                  /\ sample_data' = got.rows
                  /\ sample_resp' = sample_resp
    /\ UNCHANGED <<crudVars, tokenVars, sample_table, interval_call, createVars, metricsVars, storeVars, dbVars, fetcherVars, datesVars, tablesVars, last_read>>

\* lines 147-157: discreteness and the response
SampleCalc ==
    /\ sample_pc = "calc"
    /\ LET discreteness == calculate_time_interval(sample_data)
       IN  IF discreteness.exc # "none"
           THEN /\ sample_pc' = "error"
                /\ sample_resp' = HttpError(500, "could not get data")
           ELSE /\ sample_pc' = "done"
                /\ sample_resp' = [status |-> 200, detail |-> "",
                                   discreteness |-> <<discreteness.val>>]
    /\ UNCHANGED <<crudVars, tokenVars, sample_table, sample_data, interval_call, createVars, metricsVars, storeVars, dbVars, fetcherVars, datesVars, tablesVars, last_read>>

\* A direct call calculate_time_interval(df) on the window in its given order
CalcTimeIntervalCall ==
    /\ sample_pc = "start"
    /\ interval_call = <<>>
    /\ interval_call' = <<calculate_time_interval(sample_table)>>
    /\ UNCHANGED <<crudVars, tokenVars, sample_table, sample_pc, sample_data, sample_resp, createVars, metricsVars, storeVars, dbVars, fetcherVars, datesVars, tablesVars, last_read>>

InitSample ==
    /\ DatesIdle
    /\ TablesIdle
    /\ CrudIdle
    /\ TokenIdle
    /\ last_read = NoRead
    /\ FetcherIdle
    /\ sample_table \in SeqsUpTo(SampleTimes, MaxSample)
    /\ sample_pc = "start"
    /\ sample_data = <<>>
    /\ sample_resp = NoResp
    /\ interval_call = <<>>
    /\ CreateIdle
    /\ MetricsIdle
    /\ connections = InitConnections
    /\ forecasts = {}

NextSample == SampleLookup \/ SampleFetch \/ SampleCalc \/ CalcTimeIntervalCall

SpecSample == InitSample /\ [][NextSample]_vars

-----------------------------------------------------------------------------
(* Claims about the discreteness estimator                                 *)

\* What the claim asks of a value r returned for window w (>= 2 points): the
\* consecutive differences of the ascending window add up to max - min, so
\* r is a nearest integer of (max - min) / (n - 1), and r >= 0.
IsRoundedMeanInterval(w, r) ==
    LET n    == Len(w) - 1
        span == SetMax(SeqToSet(w)) - SetMin(SeqToSet(w))
    IN  /\ r \in Nat
        /\ 2 * Abs(r * n - span) <= n
        /\ (Len(w) = 3 /\ SeqToSet(w) = {0, 600, 1200}) => r = 600

\* C9: for every sample window of at least 2 points, in any input order,
\* calculate_time_interval returns the mean of the consecutive timestamp
\* differences of the ascending-sorted window, rounded to the nearest integer,
\* a non-negative integer; t0, t0+600, t0+1200 give 600.
C9_MeanInterval ==
    Len(sample_table) >= 2 =>
        /\ interval_call # <<>> =>
              /\ interval_call[1].exc = "none"
              /\ IsRoundedMeanInterval(sample_table, interval_call[1].val)
        /\ sample_pc = "done" =>
              /\ sample_resp.discreteness # <<>>
              /\ IsRoundedMeanInterval(sample_table, sample_resp.discreteness[1])

C9_Witness ==
    /\ sample_table = <<1200, 0, 600>>
    /\ interval_call # <<>>
    /\ interval_call[1].val = 600

\* C10: when the sample window has fewer than 2 points the estimation fails:
\* fetch_sample_data_and_discreteness returns no response carrying a
\* discreteness value (and the direct call raises).
C10_InsufficientSample ==
    Len(sample_table) < 2 =>
        /\ sample_pc # "done"
        /\ sample_resp.discreteness = <<>>
        /\ sample_resp.status # 200
        /\ sample_pc = "error" => sample_resp.status \in {400, 404, 500}
        /\ interval_call # <<>> => interval_call[1].exc # "none"

\* a one-row window reached calculate_time_interval and the request failed
C10_Witness ==
    /\ Len(sample_table) = 1
    /\ sample_data = sample_table
    /\ sample_pc = "error"
    /\ sample_resp.status = 500

-----------------------------------------------------------------------------
(* get_seconds, create_forecast_config                                     *)

MaxRequests == 2

CreateOrgs == {1}

DataNames == {"a", "b"}

TargetColumns == {"x", "y"}

HorizonCounts == {1, 10, 200}

TimeIntervals == {"minute", "hour", "day", "month", "week"}

Discretenesses == {0, 60, 600}

RowCounts == {9, 10, 25, 10000, 30000}

mapping == [minute |-> 60, hour |-> 3600, day |-> 86400, month |-> 2592000]

get_seconds(horizon_count, time_interval) ==
    IF time_interval \notin DOMAIN mapping
    THEN [exc |-> "ValueError", val |-> 0]
    ELSE [exc |-> "none", val |-> horizon_count * mapping[time_interval]]

\* (mutant of ClampPoints: the upper clamp ignores the row count)
ClampPointsFlat(raw, count_data) ==
    IF raw < 5 THEN 5 ELSE IF raw > 5000 THEN 5000 ELSE raw

\* lines 226-230: the two clamps, in the order of the code;
\* int(count_data * 0.2) is floor(count_data / 5) for a row count >= 0
ClampPoints(raw, count_data) ==
    LET low == IF raw < 5 THEN 5 ELSE raw
    IN  IF low > 5000 THEN Min2(5000, (count_data * 2) \div 10) ELSE low

\* lines 224-230: int(seconds / discreteness) and the clamps;
\* a zero discreteness raises ZeroDivisionError
HorizonPoints(seconds, discreteness, count_data) ==
    IF discreteness = 0
    THEN [exc |-> "ZeroDivisionError", val |-> 0]
    ELSE [exc |-> "none", val |-> ClampPoints(seconds \div discreteness, count_data)]

CreateResp(code, msg) == [status |-> code, detail |-> msg]

CreateFail(code, msg) ==
    /\ create_pc' = "error"
    /\ create_resp' = CreateResp(code, msg)

\* rows of ScheduleForecasting that are not deleted, of one organization
LiveForecasts(organization_id) ==
    { f \in forecasts : f.organization_id = organization_id /\ ~f.is_deleted }

\* lines 160-174: a request arrives; connection lookup and schema check
CreateBegin ==
    /\ create_pc \in {"idle", "done", "error"}
    /\ nreq < MaxRequests
    /\ nreq' = nreq + 1
    /\ \E organization_id \in CreateOrgs, connection_id \in ConnIds,
          data_name \in DataNames, target_column \in TargetColumns :
         /\ create_req' = [organization_id |-> organization_id,
                           connection_id |-> connection_id,
                           data_name |-> data_name,
                           time_column |-> "ts",
                           target_column |-> target_column]
         /\ LET found == SelectConnection(connection_id, organization_id)
            IN  IF found = {}
                THEN CreateFail(404, "connection not found")
                ELSE LET connection == CHOOSE c \in found : TRUE
                     IN  IF Lower(connection.connection_schema) # "postgresql"
                         THEN CreateFail(400, "schema not supported")
                         ELSE /\ create_pc' = "check_name"
                              /\ create_resp' = CreateResp(0, "")
    /\ create_loc' = NoLocals
    /\ UNCHANGED <<crudVars, tokenVars, sampleVars, metricsVars, storeVars, dbVars, fetcherVars, datesVars, tablesVars, last_read>>

\* lines 176-183: a live configuration of the organization with this data_name
CreateCheckName ==
    /\ create_pc = "check_name"
    /\ IF \E f \in LiveForecasts(create_req.organization_id) :
             f.data_name = create_req.data_name
       THEN CreateFail(400, "data_name exists")
       ELSE /\ create_pc' = "check_unique"
            /\ create_resp' = create_resp
    /\ UNCHANGED <<crudVars, tokenVars, create_req, create_loc, nreq, sampleVars, metricsVars, storeVars, dbVars, fetcherVars, datesVars, tablesVars, last_read>>

\* lines 186-195: a live configuration with this connection and columns
CreateCheckUnique ==
    /\ create_pc = "check_unique"
    /\ IF \E f \in LiveForecasts(create_req.organization_id) :
             /\ f.connection_id = create_req.connection_id
             /\ f.time_column = create_req.time_column
             /\ f.target_column = create_req.target_column
       THEN CreateFail(400, "connection and columns exist")
       ELSE /\ create_pc' = "count"
            /\ create_resp' = create_resp
    /\ UNCHANGED <<crudVars, tokenVars, create_req, create_loc, nreq, sampleVars, metricsVars, storeVars, dbVars, fetcherVars, datesVars, tablesVars, last_read>>

\* lines 198-210: fetch_postgres_table_count; its failure, and the
\* HTTPException(404) raised for fewer than 10 rows, are both caught by
\* `except Exception` (line 248) and answered as the generic 500
CreateFetchCount ==
    /\ create_pc = "count"
    /\ \E count_data \in RowCounts, db_fails \in BOOLEAN :
         IF db_fails \/ count_data < 10
         THEN /\ CreateFail(500, "could not create forecast config")
              /\ create_loc' = create_loc
         ELSE /\ create_pc' = "store"
              /\ create_loc' = [create_loc EXCEPT !.count_data = count_data]
              /\ create_resp' = create_resp
    /\ UNCHANGED <<crudVars, tokenVars, create_req, nreq, sampleVars, metricsVars, storeVars, dbVars, fetcherVars, datesVars, tablesVars, last_read>>

\* the row added by lines 232-245
NewForecast(req, loc, points) ==
    [id |-> Cardinality(forecasts) + 1,
     organization_id |-> req.organization_id,
     connection_id |-> req.connection_id,
     data_name |-> req.data_name,
     time_column |-> req.time_column,
     target_column |-> req.target_column,
     discreteness |-> loc.discreteness,
     count_time_points_predict |-> points,
     is_deleted |-> FALSE]

\* (mutant of CreateStore: a failed commit leaves the added row stored)
CreateStoreKeepsRow ==
    /\ create_pc = "store"
    /\ \E horizon_count \in HorizonCounts, time_interval \in TimeIntervals,
          discreteness \in Discretenesses, commit_fails \in BOOLEAN :
         LET loc     == [create_loc EXCEPT !.horizon_count = horizon_count,
                                           !.time_interval = time_interval,
                                           !.discreteness = discreteness]
             seconds == get_seconds(horizon_count, time_interval)
             points  == HorizonPoints(seconds.val, discreteness, loc.count_data)
         IN  IF seconds.exc # "none" \/ points.exc # "none"
             THEN /\ CreateFail(500, "could not create forecast config")
                  /\ create_loc' = loc
                  /\ forecasts' = forecasts
             ELSE /\ IF commit_fails
                     THEN CreateFail(500, "could not create forecast config")
                     ELSE /\ create_pc' = "done"
                          /\ create_resp' = CreateResp(200, "created")
                  /\ create_loc' = [loc EXCEPT !.count_time_points_predict = points.val]
                  /\ forecasts' = forecasts \cup {NewForecast(create_req, loc, points.val)}
    /\ UNCHANGED <<crudVars, tokenVars, create_req, nreq, connections, sampleVars, metricsVars, storeVars, fetcherVars, datesVars, tablesVars, last_read>>

\* lines 212-255: horizon sizing and commit.  The payload's horizon_count,
\* time_interval and discreteness are first read here, so they are drawn here.
\* Every exception (ValueError of get_seconds, ZeroDivisionError, a failed
\* commit) is caught by `except Exception` and answered as the generic 500.
CreateStore ==
    /\ create_pc = "store"
    /\ \E horizon_count \in HorizonCounts, time_interval \in TimeIntervals,
          discreteness \in Discretenesses, commit_fails \in BOOLEAN :
         LET loc     == [create_loc EXCEPT !.horizon_count = horizon_count,
                                           !.time_interval = time_interval,
                                           !.discreteness = discreteness]
             seconds == get_seconds(horizon_count, time_interval)
             points  == HorizonPoints(seconds.val, discreteness, loc.count_data)
         IN  IF seconds.exc # "none" \/ points.exc # "none" \/ commit_fails
             THEN /\ CreateFail(500, "could not create forecast config")
                  /\ create_loc' = loc
                  /\ forecasts' = forecasts
             ELSE /\ create_pc' = "done"
                  /\ create_resp' = CreateResp(200, "created")
                  /\ create_loc' = [loc EXCEPT !.count_time_points_predict = points.val]
                  /\ forecasts' = forecasts \cup {NewForecast(create_req, loc, points.val)}
    /\ UNCHANGED <<crudVars, tokenVars, create_req, nreq, connections, sampleVars, metricsVars, storeVars, fetcherVars, datesVars, tablesVars, last_read>>

SampleIdle ==
    /\ sample_table = <<>>
    /\ sample_pc = "idle"
    /\ sample_data = <<>>
    /\ sample_resp = NoResp
    /\ interval_call = <<>>

InitCreate ==
    /\ DatesIdle
    /\ TablesIdle
    /\ CrudIdle
    /\ TokenIdle
    /\ last_read = NoRead
    /\ FetcherIdle
    /\ CreateIdle
    /\ SampleIdle
    /\ MetricsIdle
    /\ connections = InitConnections
    /\ forecasts = {}

NextCreate ==
    CreateBegin \/ CreateCheckName \/ CreateCheckUnique \/ CreateFetchCount \/ CreateStore

SpecCreate == InitCreate /\ [][NextCreate]_vars

-----------------------------------------------------------------------------
(* Claims about the horizon calculator                                     *)

\* the row stored by the request that has just succeeded
StoredRow == CHOOSE f \in forecasts : f.id = Cardinality(forecasts)

\* seconds per unit, as the claim lists them
ClaimedUnitSeconds(unit) ==
    CASE unit = "minute" -> 60
      [] unit = "hour"   -> 3600
      [] unit = "day"    -> 86400
      [] unit = "month"  -> 2592000

\* the point count the claim states for given inputs
ClaimedPoints(horizon_count, unit, discreteness, row_count) ==
    LET raw == (horizon_count * ClaimedUnitSeconds(unit)) \div discreteness
    IN  IF raw < 5 THEN 5
        ELSE IF raw > 5000 THEN Min2(5000, row_count \div 5)
        ELSE raw

\* C6: for every positive horizon_count, unit of the table, positive
\* discreteness and row count, the stored point count is 5 when raw < 5,
\* min(5000, floor(0.2 x row_count)) when raw > 5000, raw otherwise, with
\* raw = floor(horizon_count x unit_seconds / discreteness); 10 hours at 600 s
\* give 60, 1 minute at 600 s gives 5, raw 12000 with 10000 rows gives 2000.
C6_StoredPoints ==
    create_pc = "done" =>
        LET l == create_loc
            p == StoredRow.count_time_points_predict
        IN  /\ l.time_interval \in {"minute", "hour", "day", "month"}
            /\ l.discreteness > 0
            /\ p = ClaimedPoints(l.horizon_count, l.time_interval, l.discreteness, l.count_data)
            /\ p = l.count_time_points_predict
            /\ (l.horizon_count = 10 /\ l.time_interval = "hour" /\ l.discreteness = 600)
                  => p = 60
            /\ (l.horizon_count = 1 /\ l.time_interval = "minute" /\ l.discreteness = 600)
                  => p = 5
            /\ (l.horizon_count = 200 /\ l.time_interval = "hour" /\ l.discreteness = 60
                  /\ l.count_data = 10000) => p = 2000

\* raw = 200 x 3600 / 60 = 12000 with 10000 rows was stored as 2000
C6_Witness ==
    /\ create_pc = "done"
    /\ create_loc.horizon_count = 200
    /\ create_loc.time_interval = "hour"
    /\ create_loc.discreteness = 60
    /\ create_loc.count_data = 10000
    /\ StoredRow.count_time_points_predict = 2000

\* C7: every stored forecast configuration has a horizon point count of at
\* least 5 and at most 5000.
C7_PointsBounded ==
    \A f \in forecasts :
        f.count_time_points_predict >= 5 /\ f.count_time_points_predict <= 5000

\* C8: a request whose time_interval is not minute, hour, day or month fails
\* with an invalid-unit error whose specific cause reaches the caller (not the
\* generic creation failure), and stores no configuration.
C8_InvalidUnitSurfaced ==
    (create_pc \in {"done", "error"}
        /\ create_loc.time_interval \notin {"", "minute", "hour", "day", "month"}) =>
        /\ create_pc = "error"
        /\ create_resp.detail = "invalid time interval"
        /\ \A f \in LiveForecasts(create_req.organization_id) :
              f.data_name # create_req.data_name

-----------------------------------------------------------------------------
(* Data frames.  A table row is [t, v]; a frame is [cols, rows] with rows  *)
(* [t, c] where c maps each column of cols to a cell.  A cell holds its    *)
(* value (v = <<x>>, or <<>> for NaN) and, as bookkeeping for the claims,  *)
(* the table (src) and the timestamp (t) of the table row it was read from. *)

Tolerance == 300

LIMIT == 300

NaNCell == [src |-> "", t |-> 0, v |-> <<>>]

ValueCell(src, row) == [src |-> src, t |-> row.t, v |-> <<row.v>>]

\* df.sort_values(time_column) on rows keyed by t
RECURSIVE InsertRowAsc(_, _)
InsertRowAsc(r, s) ==
    IF s = <<>> THEN <<r>>
    ELSE IF r.t < Head(s).t THEN <<r>> \o s
    ELSE <<Head(s)>> \o InsertRowAsc(r, Tail(s))

RECURSIVE InsertionSortRows(_)
InsertionSortRows(s) ==
    IF s = <<>> THEN <<>>
    ELSE InsertRowAsc(s[Len(s)], InsertionSortRows(SubSeq(s, 1, Len(s) - 1)))

\* the sort is stable: rows already in time order stay as they are
SortRows(s) ==
    IF \A i \in 1..(Len(s) - 1) : s[i].t <= s[i + 1].t THEN s ELSE InsertionSortRows(s)

\* the rows a query WHERE time BETWEEN :start_date AND :end_date matches
RowsInRange(table, start_date, end_date) ==
    SelectSeq(table, LAMBDA r : start_date <= r.t /\ r.t <= end_date)

\* the date texts a request may carry and the timestamps they denote; any
\* other text does not parse
DateValue == ("1970-01-01 00:00:00" :> 0) @@ ("1970-01-01 00:10:00" :> 600)

\* pd.to_datetime(date): raises ValueError on a text that is not a date
to_datetime(date) ==
    IF date \in DOMAIN DateValue
    THEN [exc |-> "none", val |-> DateValue[date]]
    ELSE [exc |-> "ValueError", val |-> 0]

\* fetch_data_in_range: the dates are parsed (lines 125-126), then every row
\* of the range is read, with no LIMIT; parsing and query run outside any
\* try, so a ValueError of the parse and a failure of the backend (db_fails)
\* are raised
fetch_data_in_range(table, start_date, end_date, db_fails) ==
    LET s == to_datetime(start_date)
        e == to_datetime(end_date)
    IN  IF s.exc # "none" \/ e.exc # "none"
        THEN [exc |-> "ValueError", rows |-> <<>>]
        ELSE IF db_fails
        THEN [exc |-> "Exception", rows |-> <<>>]
        ELSE [exc |-> "none", rows |-> RowsInRange(table, s.val, e.val)]

\* how many rows of the table the query of the request matches
RangeMatched(table, start_date, end_date) ==
    Len(RowsInRange(table, to_datetime(start_date).val, to_datetime(end_date).val))

\* the record kept of a read: the operation, the table read, whether the
\* backend failed, how many rows the query matches, the exception raised and
\* the length of the window returned
Read(op, src, db_fails, matched, exc, window) ==
    [op |-> op, src |-> src, db_fails |-> db_fails, matched |-> matched,
     exc |-> exc, nrows |-> Len(window)]

\* a frame of the two columns (time, target) read from table src
FrameOf(rows, src) ==
    [cols |-> <<"target">>,
     rows |-> [i \in 1..Len(rows) |->
                 [t |-> rows[i].t, c |-> [k \in {"target"} |-> ValueCell(src, rows[i])]]]]

\* df.rename(columns={old: new})
Rename(df, old, new) ==
    LET ren(k) == IF k = old THEN new ELSE k
        newset == {ren(k) : k \in SeqToSet(df.cols)}
    IN  [cols |-> [i \in 1..Len(df.cols) |-> ren(df.cols[i])],
         rows |-> [i \in 1..Len(df.rows) |->
                     [t |-> df.rows[i].t,
                      c |-> [k \in newset |->
                               IF k = new THEN df.rows[i].c[old] ELSE df.rows[i].c[k]]]]]

\* pandas merge_asof(direction='nearest'): the index in rrows (sorted by t) of
\* the row nearest to time t, 0 when there is none; the backward candidate is
\* the last row at or before t, the forward candidate the first row at or
\* after t; each must lie within the tolerance (tol = <<>>: no tolerance);
\* the backward candidate wins a tie.
NearestIdx(t, rrows, tol) ==
    LET back == {j \in 1..Len(rrows) : rrows[j].t <= t
                     /\ (tol = <<>> \/ t - rrows[j].t <= tol[1])}
        fwd  == {j \in 1..Len(rrows) : rrows[j].t >= t
                     /\ (tol = <<>> \/ rrows[j].t - t <= tol[1])}
        b    == IF back = {} THEN 0 ELSE SetMax(back)
        f    == IF fwd = {} THEN 0 ELSE SetMin(fwd)
    IN  IF b # 0 /\ f # 0
        THEN IF t - rrows[b].t <= rrows[f].t - t THEN b ELSE f
        ELSE IF b # 0 THEN b ELSE f

\* pandas merge_asof(left, right, on=time, direction='nearest', tolerance=tol):
\* every left row is kept; the right columns come from the nearest right row
\* or are NaN.  left and right share no column but the time.
MergeAsof(left, right, tol) ==
    LET lset == SeqToSet(left.cols)
        rset == SeqToSet(right.cols)
    IN  [cols |-> left.cols \o right.cols,
         rows |-> [i \in 1..Len(left.rows) |->
                     LET l == left.rows[i]
                         j == NearestIdx(l.t, right.rows, tol)
                     IN  [t |-> l.t,
                          c |-> [k \in lset \cup rset |->
                                   IF k \in lset THEN l.c[k]
                                   ELSE IF j = 0 THEN NaNCell
                                   ELSE right.rows[j].c[k]]]]]

\* df.dropna(): rows with a NaN in any column are dropped
DropNa(df) ==
    [cols |-> df.cols,
     rows |-> SelectSeq(df.rows, LAMBDA r : \A k \in SeqToSet(df.cols) : r.c[k].v # <<>>)]

\* the values of one column of a frame without NaN
Column(df, k) == [i \in 1..Len(df.rows) |-> df.rows[i].c[k].v[1]]

-----------------------------------------------------------------------------
(* Metrics.  A computed value is [kind, num, den]: the rational num/den     *)
(* (den > 0) when kind = "num", else NaN or +infinity.  A reported value is *)
(* [kind, h] with h the number of hundredths (round(x, 2) = h / 100).       *)

Num(n, d) == [kind |-> "num", num |-> n, den |-> d]

NaNValue == [kind |-> "nan", num |-> 0, den |-> 1]

InfValue == [kind |-> "inf", num |-> 0, den |-> 1]

AbsDiffs(y_true, y_pred) == [i \in 1..Len(y_true) |-> Abs(y_true[i] - y_pred[i])]

SqDiffs(y_true, y_pred) ==
    [i \in 1..Len(y_true) |-> (y_true[i] - y_pred[i]) * (y_true[i] - y_pred[i])]

\* sklearn.metrics.mean_absolute_error (called on at least one sample)
mean_absolute_error(y_true, y_pred) ==
    Num(SeqSum(AbsDiffs(y_true, y_pred)), Len(y_true))

\* sklearn.metrics.mean_squared_error
mean_squared_error(y_true, y_pred) ==
    Num(SeqSum(SqDiffs(y_true, y_pred)), Len(y_true))

\* sklearn.metrics.r2_score: NaN for fewer than two samples; for a constant
\* y_true 1.0 when the residual is zero and 0.0 otherwise; else
\* 1 - SS_res / SS_tot with SS_tot = (n * sum(t^2) - sum(t)^2) / n
r2_score(y_true, y_pred) ==
    LET n   == Len(y_true)
        res == SeqSum(SqDiffs(y_true, y_pred))
        st  == SeqSum(y_true)
        st2 == SeqSum([i \in 1..n |-> y_true[i] * y_true[i]])
        D   == n * st2 - st * st
    IN  IF n < 2 THEN NaNValue
        ELSE IF D = 0 THEN (IF res = 0 THEN Num(1, 1) ELSE Num(0, 1))
        ELSE Num(D - n * res, D)

\* sum of the fractions <<n, d>> of a sequence, as a fraction
RECURSIVE RatSum(_)
RatSum(s) ==
    IF s = <<>> THEN <<0, 1>>
    ELSE LET r == RatSum(Tail(s))
         IN  <<Head(s)[1] * r[2] + r[1] * Head(s)[2], Head(s)[2] * r[2]>>

\* np.mean(np.abs((y_true - y_pred) / y_true)) * 100 on pandas Series:
\* a row with y_true = 0 is +inf, or NaN when y_pred = 0 too; np.mean of a
\* Series is Series.mean(), which skips NaN rows; the mean of no rows is NaN
mean_abs_pct(y_true, y_pred) ==
    LET n      == Len(y_true)
        nanrow == {i \in 1..n : y_true[i] = 0 /\ y_pred[i] = 0}
        infrow == {i \in 1..n : y_true[i] = 0 /\ y_pred[i] # 0}
        kept   == SelectSeq([i \in 1..n |-> <<Abs(y_true[i] - y_pred[i]), Abs(y_true[i])>>],
                            LAMBDA q : q[2] # 0)
        total  == RatSum(kept)
    IN  IF infrow # {} THEN InfValue
        ELSE IF Len(kept) = 0 THEN NaNValue
        ELSE Num(100 * total[1], total[2] * Len(kept))

\* _safe_metric: None and NaN become 0; anything else, +inf too, is kept
safe_metric(value) == IF value.kind = "nan" THEN Num(0, 1) ELSE value

\* round(x, 2), in hundredths; round(inf, 2) is inf
Round2(value) ==
    IF value.kind # "num" THEN [kind |-> value.kind, h |-> 0]
    ELSE [kind |-> "num",
          h |-> IF value.num >= 0 THEN RoundHalfEven(100 * value.num, value.den)
                ELSE -RoundHalfEven(100 * (-value.num), value.den)]

\* the largest k in lo..hi with k * k <= n (lo * lo <= n)
RECURSIVE IsqrtIn(_, _, _)
IsqrtIn(n, lo, hi) ==
    IF lo = hi THEN lo
    ELSE LET mid == (lo + hi + 1) \div 2
         IN  IF mid * mid <= n THEN IsqrtIn(n, mid, hi) ELSE IsqrtIn(n, lo, mid - 1)

\* round(np.sqrt(mse), 2), in hundredths: the integer nearest to
\* 100 * sqrt(num / den), which is (floor(sqrt(40000 * num / den)) + 1) div 2
RoundSqrt2(mse) ==
    LET y == (40000 * mse.num) \div mse.den
    IN  [kind |-> "num", h |-> (IsqrtIn(y, 0, 200 * (mse.num \div mse.den + 1)) + 1) \div 2]

\* lines 157-168: the metric set of one method
MetricSet(y_true, y_pred) ==
    [MAE  |-> Round2(safe_metric(mean_absolute_error(y_true, y_pred))),
     RMSE |-> RoundSqrt2(safe_metric(mean_squared_error(y_true, y_pred))),
     R2   |-> Round2(safe_metric(r2_score(y_true, y_pred))),
     MAPE |-> Round2(safe_metric(mean_abs_pct(y_true, y_pred)))]

\* calculate_metrics(df_merged, target_column, exist_methods): y_true is the
\* target column, y_pred the column named after the method; sklearn raises
\* ValueError on a frame without rows
calculate_metrics(frame, exist_methods) ==
    IF exist_methods # <<>> /\ frame.rows = <<>>
    THEN [exc |-> "ValueError", results |-> <<>>]
    ELSE [exc |-> "none",
          results |-> [i \in 1..Len(exist_methods) |->
                         [method |-> exist_methods[i],
                          metrics |-> MetricSet(Column(frame, "target"),
                                                Column(frame, exist_methods[i]))]]]

-----------------------------------------------------------------------------
(* fetch_metrics_by_date                                                   *)

MaxRows == 2

Times == {0, 300, 600}

Values == {0, 1, 2}

Methods == {"XGBoost", "LSTM"}

MethodLists == {<<>>, <<"XGBoost">>, <<"XGBoost", "LSTM">>}

\* the requested range [start_date, end_date]
DateRanges ==
    {<<"1970-01-01 00:00:00", "1970-01-01 00:10:00">>,
     <<"2025-13-45", "1970-01-01 00:10:00">>,
     <<"1970-01-01 00:00:00", "2025-13-45">>}

\* the ascending sequence of the elements of a finite set of integers
RECURSIVE SetToSeq(_)
SetToSeq(S) ==
    IF S = {} THEN <<>> ELSE <<SetMin(S)>> \o SetToSeq(S \ {SetMin(S)})

\* every table of at most n rows with distinct timestamps of T and values of V
Tables(T, V, n) ==
    { [i \in 1..Len(SetToSeq(D)) |-> [t |-> SetToSeq(D)[i], v |-> f[SetToSeq(D)[i]]]] :
        D \in {X \in SUBSET T : Cardinality(X) <= n}, f \in [T -> V] }

\* the contents a table of the data store may have
AllTables == Tables(Times, Values, MaxRows)

\* a source table of one row more than LIMIT, all inside the requested range
BigTable == [i \in 1..(LIMIT + 1) |-> [t |-> i, v |-> 0]]

\* the contents the source table may have
RealTables == AllTables \cup {BigTable}

\* the one configuration the requests of this specification resolve
MetricsConfig ==
    [id |-> 1, organization_id |-> 1, connection_id |-> 1, data_name |-> "a",
     time_column |-> "ts", target_column |-> "x", discreteness |-> 600,
     count_time_points_predict |-> 60, is_deleted |-> FALSE]

\* a configuration whose connection was deleted after it was stored
OrphanConfig ==
    [id |-> 2, organization_id |-> 1, connection_id |-> 4, data_name |-> "b",
     time_column |-> "ts", target_column |-> "x", discreteness |-> 600,
     count_time_points_predict |-> 60, is_deleted |-> FALSE]

\* the stored configurations the requests meet
StoredConfigs == {MetricsConfig, OrphanConfig}

MetricsResp(code, msg) == [status |-> code, detail |-> msg, data |-> <<>>]

\* every failure answered as the generic processing failure
MetricsFailGeneric(code, msg) ==
    /\ metrics_pc' = "error"
    /\ metrics_resp' = MetricsResp(500, "error while processing data")

MetricsFail(code, msg) ==
    /\ metrics_pc' = "error"
    /\ metrics_resp' = MetricsResp(code, msg)

\* lines 176-211: configuration, methods and connection are resolved
MetricsResolve ==
    /\ metrics_pc = "start"
    /\ \E organization_id \in UserOrgs, data_name \in DataNames, range \in DateRanges :
         LET cfgs == {f \in LiveForecasts(organization_id) : f.data_name = data_name}
         IN  /\ metrics_req' = [organization_id |-> organization_id, data_name |-> data_name,
                                start_date |-> range[1], end_date |-> range[2]]
             /\ IF organization_id = 0
                THEN MetricsFail(400, "bad request")
                ELSE IF cfgs = {}
                THEN MetricsFail(404, "forecast config not found")
                ELSE IF methods_predict = <<>>
                THEN MetricsFail(404, "no forecast methods")
                ELSE LET data  == CHOOSE f \in cfgs : TRUE
                         found == SelectConnection(data.connection_id, organization_id)
                     IN  IF found = {}
                         THEN MetricsFail(404, "connection not found")
                         ELSE IF (CHOOSE c \in found : TRUE).connection_schema # "PostgreSQL"
                         THEN MetricsFail(400, "connection not supported")
                         ELSE /\ metrics_pc' = "real"
                              /\ metrics_resp' = metrics_resp
    /\ UNCHANGED <<crudVars, tokenVars, methods_predict, df_merged, method_i, storeVars, dbVars,
                   sampleVars, createVars, fetcherVars, datesVars, tablesVars, last_read>>

\* lines 213-230: the real rows of the range, sorted, start the running frame;
\* a failure of the read is caught on line 263 and answered as the generic 500.
\* The source table belongs to the organization's data store: its contents
\* are drawn when the request reads it.
MetricsFetchReal ==
    /\ metrics_pc = "real"
    /\ \E db_fails \in ReadFailures, table \in StoredOr(RealTables, real_table) :
         LET read == fetch_data_in_range(table, metrics_req.start_date,
                                         metrics_req.end_date, db_fails)
             df_real_data == SortRows(read.rows)
         IN  /\ db_fails => table = <<>>
             /\ last_read' =
                   IF read.exc = "ValueError" THEN last_read
                   ELSE Read("fetch_range", "real", db_fails,
                             RangeMatched(table, metrics_req.start_date,
                                          metrics_req.end_date),
                             read.exc, read.rows)
             /\ IF read.exc # "none"
                THEN /\ MetricsFail(500, "error while processing data")
                     /\ UNCHANGED <<crudVars, tokenVars, df_merged, method_i, real_table>>
                ELSE /\ real_table' = table
                     /\ df_merged' = FrameOf(df_real_data, "real")
                     /\ method_i' = 1
                     /\ metrics_pc' = "loop"
                     /\ metrics_resp' = metrics_resp
    /\ UNCHANGED <<crudVars, tokenVars, metrics_req, methods_predict, pred_tables, dbVars, sampleVars,
                   createVars, fetcherVars, datesVars, tablesVars>>

\* lines 244-254: the rows read for a method, if any, become the left frame
\* of the merge with the running frame, whose target column is renamed to the
\* method
merge_method(running, method, df) ==
    IF df = <<>> THEN running
    ELSE MergeAsof(FrameOf(SortRows(df), method),
                   Rename(running, "target", method),
                   <<Tolerance>>)

\* lines 232-254: one iteration of the loop over methods_predict; the
\* method's target table is drawn when it is read
MetricsMergeMethod ==
    /\ metrics_pc = "loop"
    /\ method_i <= Len(methods_predict)
    /\ \E db_fails \in ReadFailures, table \in StoredOr(AllTables, pred_tables[methods_predict[method_i]]) :
         LET method == methods_predict[method_i]
             read   == fetch_data_in_range(table, metrics_req.start_date,
                                           metrics_req.end_date, db_fails)
             df     == read.rows
         IN  /\ db_fails => table = <<>>
             /\ last_read' =
                   IF read.exc = "ValueError" THEN last_read
                   ELSE Read("fetch_range", method, db_fails,
                             RangeMatched(table, metrics_req.start_date,
                                          metrics_req.end_date),
                             read.exc, read.rows)
             /\ IF read.exc # "none"
                THEN /\ MetricsFail(500, "error while processing data")
                     /\ UNCHANGED <<crudVars, tokenVars, df_merged, method_i, pred_tables>>
                ELSE /\ pred_tables' = [pred_tables EXCEPT ![method] = table]
                     /\ df_merged' = merge_method(df_merged, method, df)
                     /\ method_i' = method_i + 1
                     /\ UNCHANGED <<crudVars, tokenVars, metrics_pc, metrics_resp>>
    /\ UNCHANGED <<crudVars, tokenVars, metrics_req, methods_predict, real_table, dbVars, sampleVars,
                   createVars, fetcherVars, datesVars, tablesVars>>

\* line 256: the columns other than the time and the target
ExistMethods(df) == SelectSeq(df.cols, LAMBDA k : k # "target")

\* lines 256-266: dropna, calculate_metrics, the response; an exception of
\* calculate_metrics is caught on line 263 and answered as the generic 500
MetricsScore ==
    /\ metrics_pc = "loop"
    /\ method_i > Len(methods_predict)
    /\ LET exist_methods == ExistMethods(df_merged)
           dropped       == DropNa(df_merged)
           data          == calculate_metrics(dropped, exist_methods)
       IN  /\ df_merged' = dropped
           /\ IF data.exc # "none"
              THEN MetricsFail(500, "error while processing data")
              ELSE /\ metrics_pc' = "done"
                   /\ metrics_resp' = [status |-> 200, detail |-> "", data |-> data.results]
    /\ UNCHANGED <<crudVars, tokenVars, metrics_req, methods_predict, method_i, storeVars, dbVars,
                   sampleVars, createVars, fetcherVars, datesVars, tablesVars, last_read>>

InitMetrics ==
    /\ DatesIdle
    /\ TablesIdle
    /\ CrudIdle
    /\ TokenIdle
    /\ last_read = NoRead
    /\ FetcherIdle
    /\ SampleIdle
    /\ CreateIdle
    /\ connections = InitConnections
    /\ forecasts = StoredConfigs
    /\ methods_predict \in MethodLists
    /\ real_table = <<>>
    /\ pred_tables = [m \in Methods |-> <<>>]
    /\ metrics_pc = "start"
    /\ metrics_req = [organization_id |-> 0, data_name |-> "", start_date |-> "", end_date |-> ""]
    /\ df_merged = EmptyFrame
    /\ method_i = 0
    /\ metrics_resp = NoMetricsResp

NextMetrics == MetricsResolve \/ MetricsFetchReal \/ MetricsMergeMethod \/ MetricsScore

SpecMetrics == InitMetrics /\ [][NextMetrics]_vars

-----------------------------------------------------------------------------
(* metrix_all, method_metrix_table, data_fetcher                           *)

\* timestamps of the tables the dashboard reads
FetcherTimes == {0, 400, 1000}

FetcherTables == Tables(FetcherTimes, Values, MaxRows)

\* the contents the source table of the dashboard may have
FetcherRealTables == FetcherTables \cup {BigTable}

\* a prediction table with LIMIT forecasts of past timestamps and one forecast
\* of a timestamp to come
BigPredTable ==
    [i \in 1..(LIMIT + 1) |-> [t |-> IF i <= LIMIT THEN i ELSE 2000, v |-> 0]]

\* the contents a prediction table of the dashboard may have
FetcherPredTables == FetcherTables \cup {BigPredTable}

\* one row of the comparison table: the row-wise error columns of lines 63-65
ErrorColumns(true_cell, pred_cell) ==
    IF true_cell.v = <<>> \/ pred_cell.v = <<>>
    THEN [MAE |-> NaNValue, RMSE |-> NaNValue, MAPE |-> NaNValue]
    ELSE LET d == Abs(true_cell.v[1] - pred_cell.v[1])
             y == Abs(true_cell.v[1])
         IN  [MAE  |-> Num(d, 1),
              RMSE |-> Num(d, 1),
              MAPE |-> IF y # 0 THEN Num(100 * d, y)
                       ELSE IF d = 0 THEN NaNValue ELSE InfValue]

\* the tolerance of the merge of lines 55-61: none is passed
MetrixAllTolerance == <<>>

\* metrix_all: both frames sorted by time, every evaluated row joined to the
\* nearest comparative row, error columns added, <target>_true renamed to
\* <target>
metrix_all(df_evaluetion, df_comparative, src) ==
    LET left   == Rename(FrameOf(SortRows(df_evaluetion), src), "target", "target_pred")
        right  == Rename(FrameOf(SortRows(df_comparative), "real"), "target", "target_true")
        merged == Rename(MergeAsof(left, right, MetrixAllTolerance), "target_true", "target")
    IN  [i \in 1..Len(merged.rows) |->
            [t |-> merged.rows[i].t, c |-> merged.rows[i].c,
             err |-> ErrorColumns(merged.rows[i].c["target"],
                                  merged.rows[i].c["target_pred"])]]

\* method_metrix_table: the records of metrix_all with <target>_pred renamed
\* to type
method_metrix_table(df_real, df_previous_prediction, src, type) ==
    LET rows == metrix_all(df_previous_prediction, df_real, src)
    IN  [i \in 1..Len(rows) |->
            [t |-> rows[i].t, err |-> rows[i].err,
             c |-> [k \in {"target", type} |->
                      IF k = "target" THEN rows[i].c["target"]
                      ELSE rows[i].c["target_pred"]]]]

\* get_table_data_df: the newest limit rows, ascending; a failed query gives
\* the empty frame
get_table_data_df(table, limit, db_fails) ==
    LET sorted == SortRows(table)
    IN  IF db_fails THEN <<>>
        ELSE SubSeq(sorted, IF Len(sorted) > limit THEN Len(sorted) - limit + 1 ELSE 1,
                    Len(sorted))

\* get_forecast_data_df_from_date: the first limit rows at or after
\* first_real_date, ascending; a failed query gives the empty frame
get_forecast_data_df_from_date(table, first_real_date, limit, db_fails) ==
    IF db_fails THEN <<>>
    ELSE Take(SelectSeq(SortRows(table), LAMBDA r : r.t >= first_real_date), limit)

\* line 337 with a strict comparison
df_last_predict_data_strict(df_predict_data, last_real_date) ==
    SelectSeq(df_predict_data, LAMBDA r : r.t < last_real_date)

\* line 337: the fetched rows at or before the last real timestamp
df_last_predict_data(df_predict_data, last_real_date) ==
    SelectSeq(df_predict_data, LAMBDA r : r.t <= last_real_date)

\* line 338: the fetched rows after the last real timestamp
df_real_predict_data(df_predict_data, last_real_date) ==
    SelectSeq(df_predict_data, LAMBDA r : r.t > last_real_date)

\* generane_responce with the chart data left out of map_data
generane_responce_no_data(data, last_know_data, metrics_table_XGBoost, metrics_table_LSTM, df_table_to_download) ==
    [data |-> NoDataResult,
     last_know_data |-> <<last_know_data>>,
     table_to_download |-> df_table_to_download,
     metrix_tables |-> [m \in {"XGBoost", "LSTM"} |->
                          IF m = "XGBoost" THEN metrics_table_XGBoost
                          ELSE metrics_table_LSTM]]

\* generane_responce: the payload of the sensor (the fixed legend and texts
\* are left out)
generane_responce(data, last_know_data, metrics_table_XGBoost, metrics_table_LSTM, df_table_to_download) ==
    [data |-> data,
     last_know_data |-> <<last_know_data>>,
     table_to_download |-> df_table_to_download,
     metrix_tables |-> [m \in {"XGBoost", "LSTM"} |->
                          IF m = "XGBoost" THEN metrics_table_XGBoost
                          ELSE metrics_table_LSTM]]

FetcherResp(code, msg) == [status |-> code, detail |-> msg, view |-> NoView]

FetcherFail(code, msg) ==
    /\ fetcher_pc' = "error"
    /\ fetcher_resp' = FetcherResp(code, msg)

\* lines 260-294: organization, configuration, connection and schema
FetcherResolve ==
    /\ fetcher_pc = "start"
    /\ \E organization_id \in UserOrgs, data_name \in DataNames :
         LET cfgs == {f \in LiveForecasts(organization_id) : f.data_name = data_name}
         IN  /\ fetcher_req' = [organization_id |-> organization_id, data_name |-> data_name]
             /\ IF organization_id = 0
                THEN FetcherFail(400, "bad request")
                ELSE IF cfgs = {}
                THEN FetcherFail(404, "forecast config not found")
                ELSE LET data  == CHOOSE f \in cfgs : TRUE
                         found == SelectConnection(data.connection_id, organization_id)
                     IN  IF found = {}
                         THEN FetcherFail(404, "connection not found")
                         ELSE IF (CHOOSE c \in found : TRUE).connection_schema # "PostgreSQL"
                         THEN FetcherFail(400, "connection not supported")
                         ELSE /\ fetcher_pc' = "real"
                              /\ fetcher_resp' = fetcher_resp
    /\ UNCHANGED <<crudVars, tokenVars, df_last_real_data, fetcher_i, data_result, metrics_table,
                   table_to_download, storeVars, dbVars, sampleVars, createVars, metricsVars, datesVars, tablesVars, last_read>>

\* lines 296-312: the newest rows of the source table; none is a 404
FetcherFetchReal ==
    /\ fetcher_pc = "real"
    /\ \E db_fails \in ReadFailures, table \in StoredOr(FetcherRealTables, real_table) :
         LET df == get_table_data_df(table, LIMIT, db_fails)
         IN  /\ db_fails => table = <<>>
             /\ last_read' = Read("fetch_latest", "real", db_fails, Len(table), "none", df)
             /\ real_table' = table
             /\ df_last_real_data' = df
             /\ IF df = <<>>
                THEN /\ FetcherFail(404, "no data to analyse")
                     /\ UNCHANGED <<crudVars, tokenVars, fetcher_i, data_result>>
                ELSE /\ fetcher_pc' = "loop"
                     /\ fetcher_i' = 1
                     /\ data_result' = [data_result EXCEPT !.last_real_data = df]
                     /\ fetcher_resp' = fetcher_resp
    /\ UNCHANGED <<crudVars, tokenVars, fetcher_req, metrics_table, table_to_download,
                   pred_tables, dbVars, sampleVars, createVars, metricsVars, datesVars,
                   tablesVars>>

\* lines 329-364: what one iteration leaves in data_result, metrics_table and
\* table_to_download.  The rows of the method's table from first_real_date on
\* are split at last_real_date: the earlier segment is compared with the real
\* rows, the later one is the chart's forecast.  The LSTM branch passes
\* type="XGBoost" (line 363).
FetcherIteration(acc, real_data, method, df_predict_data) ==
    LET last_real_date    == real_data[Len(real_data)].t
        df_last_real_line == real_data[Len(real_data)]
        last_predict      == df_last_predict_data(df_predict_data, last_real_date)
        real_predict      == df_real_predict_data(df_predict_data, last_real_date)
        predict_data      == <<df_last_real_line>> \o real_predict
    IN  IF df_predict_data = <<>>
        THEN acc
        ELSE IF method = "XGBoost"
        THEN [data_result |->
                  [acc.data_result EXCEPT !.actual_prediction_xgboost = predict_data],
              table_to_download |-> [rows |-> predict_data, lstm |-> FALSE],
              metrics_table |->
                  [acc.metrics_table EXCEPT !["XGBoost"] =
                      method_metrix_table(real_data, last_predict, method, "XGBoost")]]
        ELSE [data_result |->
                  [acc.data_result EXCEPT !.actual_prediction_lstm = predict_data],
              table_to_download |-> [rows |-> real_predict, lstm |-> TRUE],
              metrics_table |->
                  [acc.metrics_table EXCEPT !["LSTM"] =
                      method_metrix_table(real_data, last_predict, method, "XGBoost")]]

\* lines 320-364: one iteration of the loop over methods_predict; the method's
\* table is read from first_real_date on
FetcherMethod ==
    /\ fetcher_pc = "loop"
    /\ fetcher_i <= Len(methods_predict)
    /\ \E db_fails \in ReadFailures, table \in StoredOr(FetcherPredTables, pred_tables[methods_predict[fetcher_i]]) :
         LET method          == methods_predict[fetcher_i]
             first_real_date == df_last_real_data[1].t
             df_predict_data == get_forecast_data_df_from_date(
                                    table, first_real_date, LIMIT, db_fails)
         IN  /\ db_fails => table = <<>>
             /\ last_read' = Read("fetch_since", method, db_fails,
                                  Len(SelectSeq(table, LAMBDA r : r.t >= first_real_date)),
                                  "none", df_predict_data)
             /\ pred_tables' = [pred_tables EXCEPT ![method] = table]
             /\ fetcher_i' = fetcher_i + 1
             /\ \E after \in {FetcherIteration(
                                   [data_result |-> data_result,
                                    table_to_download |-> table_to_download,
                                    metrics_table |-> metrics_table],
                                   df_last_real_data, method, df_predict_data)} :
                   /\ data_result' = after.data_result
                   /\ table_to_download' = after.table_to_download
                   /\ metrics_table' = after.metrics_table
    /\ UNCHANGED <<crudVars, tokenVars, fetcher_pc, fetcher_req, df_last_real_data, fetcher_resp, real_table,
                   dbVars, sampleVars, createVars, metricsVars, datesVars, tablesVars>>

\* lines 366-377: the response carries the comparison tables
FetcherRespond ==
    /\ fetcher_pc = "loop"
    /\ fetcher_i > Len(methods_predict)
    /\ fetcher_pc' = "done"
    /\ fetcher_resp' =
          [status |-> 200, detail |-> "",
           view |-> generane_responce(data_result,
                                      df_last_real_data[Len(df_last_real_data)].t,
                                      metrics_table["XGBoost"], metrics_table["LSTM"],
                                      table_to_download)]
    /\ UNCHANGED <<crudVars, tokenVars, fetcher_req, df_last_real_data, fetcher_i, data_result, metrics_table,
                   table_to_download, storeVars, dbVars, sampleVars, createVars, metricsVars, datesVars, tablesVars, last_read>>

InitFetcher ==
    /\ DatesIdle
    /\ TablesIdle
    /\ CrudIdle
    /\ TokenIdle
    /\ last_read = NoRead
    /\ SampleIdle
    /\ CreateIdle
    /\ connections = InitConnections
    /\ forecasts = StoredConfigs
    /\ methods_predict \in MethodLists
    /\ metrics_pc = "idle"
    /\ metrics_req = [organization_id |-> 0, data_name |-> "", start_date |-> "", end_date |-> ""]
    /\ df_merged = EmptyFrame
    /\ method_i = 0
    /\ metrics_resp = NoMetricsResp
    /\ real_table = <<>>
    /\ pred_tables = [m \in Methods |-> <<>>]
    /\ fetcher_pc = "start"
    /\ fetcher_req = [organization_id |-> 0, data_name |-> ""]
    /\ df_last_real_data = <<>>
    /\ fetcher_i = 0
    /\ data_result = NoDataResult
    /\ metrics_table = NoMetrixTables
    /\ table_to_download = NoTableToDownload
    /\ fetcher_resp = NoFetcherResp

NextFetcher ==
    \/ FetcherResolve
    \/ FetcherFetchReal
    \/ FetcherMethod
    \/ FetcherRespond

SpecFetcher == InitFetcher /\ [][NextFetcher]_vars

-----------------------------------------------------------------------------
(* get_min_max_dates, fetch_possible_date_for_metrix                       *)

\* timedelta(days=1), in seconds
OneDay == 86400

\* get_min_max_dates with the two results exchanged
get_min_max_dates_swapped(table, db_fails) ==
    IF db_fails \/ table = <<>> THEN <<>>
    ELSE <<SetMax({table[i].t : i \in 1..Len(table)}),
           SetMin({table[i].t : i \in 1..Len(table)})>>

\* get_min_max_dates: <<min_date, max_date>> of the time column; <<>> stands
\* for (None, None), the result on a failed query and on a table without rows
\* (MIN and MAX are NULL and pd.to_datetime(None) is None)
get_min_max_dates(table, db_fails) ==
    IF db_fails \/ table = <<>> THEN <<>>
    ELSE <<SetMin({table[i].t : i \in 1..Len(table)}),
           SetMax({table[i].t : i \in 1..Len(table)})>>

DatesResp(code, msg) == [NoDatesResp EXCEPT !.status = code, !.detail = msg]

DatesFail(code, msg) ==
    /\ dates_pc' = "error"
    /\ dates_resp' = DatesResp(code, msg)

\* lines 46-79: organization, configuration, methods, connection and schema
DatesResolve ==
    /\ dates_pc = "start"
    /\ \E organization_id \in UserOrgs, data_name \in DataNames :
         LET cfgs == {f \in LiveForecasts(organization_id) : f.data_name = data_name}
         IN  /\ dates_req' = [organization_id |-> organization_id, data_name |-> data_name]
             /\ IF organization_id = 0
                THEN DatesFail(400, "organization id missing")
                ELSE IF cfgs = {}
                THEN DatesFail(404, "forecast config not found")
                ELSE IF methods_predict = <<>>
                THEN DatesFail(404, "no forecast methods")
                ELSE LET data  == CHOOSE f \in cfgs : TRUE
                         found == SelectConnection(data.connection_id, organization_id)
                     IN  IF found = {}
                         THEN DatesFail(404, "connection not found")
                         ELSE IF (CHOOSE c \in found : TRUE).connection_schema # "PostgreSQL"
                         THEN DatesFail(400, "connection not supported")
                         ELSE /\ dates_pc' = "source"
                              /\ dates_resp' = dates_resp
    /\ UNCHANGED <<crudVars, tokenVars, max_date, earliest_date, dates_i, storeVars, dbVars, sampleVars,
                   createVars, metricsVars, fetcherVars, tablesVars, last_read>>

\* lines 81-91: min and max of the source table; none is a 404
DatesFetchSource ==
    /\ dates_pc = "source"
    /\ \E db_fails \in BOOLEAN, table \in AllTables :
         LET dates == get_min_max_dates(table, db_fails)
         IN  /\ db_fails => table = <<>>
             /\ real_table' = table
             /\ IF dates = <<>>
                THEN /\ DatesFail(404, "no data in the table")
                     /\ UNCHANGED <<crudVars, tokenVars, max_date, earliest_date, dates_i>>
                ELSE /\ max_date' = <<dates[2]>>
                     /\ earliest_date' = <<>>
                     /\ dates_i' = 1
                     /\ dates_pc' = "loop"
                     /\ dates_resp' = dates_resp
    /\ UNCHANGED <<crudVars, tokenVars, dates_req, pred_tables, dbVars, sampleVars, createVars, metricsVars,
                   fetcherVars, tablesVars, last_read>>

\* lines 92-100: one iteration of the loop over methods_predict; a Timestamp
\* is always true, None is not
DatesMethod ==
    /\ dates_pc = "loop"
    /\ dates_i <= Len(methods_predict)
    /\ \E db_fails \in BOOLEAN, table \in AllTables :
         LET dates == get_min_max_dates(table, db_fails)
         IN  /\ db_fails => table = <<>>
             /\ pred_tables' = [pred_tables EXCEPT ![methods_predict[dates_i]] = table]
             /\ earliest_date' =
                   IF dates # <<>> /\ (earliest_date = <<>> \/ dates[1] < earliest_date[1])
                   THEN <<dates[1]>>
                   ELSE earliest_date
             /\ dates_i' = dates_i + 1
    /\ UNCHANGED <<crudVars, tokenVars, dates_pc, dates_req, max_date, dates_resp, real_table, dbVars,
                   sampleVars, createVars, metricsVars, fetcherVars, tablesVars, last_read>>

\* lines 102-114: the response
DatesRespond ==
    /\ dates_pc = "loop"
    /\ dates_i > Len(methods_predict)
    /\ dates_pc' = "done"
    /\ dates_resp' = [status |-> 200, detail |-> "",
                      earliest_date |-> earliest_date,
                      max_date |-> max_date,
                      start_default_date |-> <<max_date[1] - OneDay>>,
                      end_default_date |-> max_date]
    /\ UNCHANGED <<crudVars, tokenVars, dates_req, max_date, earliest_date, dates_i, storeVars, dbVars,
                   sampleVars, createVars, metricsVars, fetcherVars, tablesVars, last_read>>

InitDates ==
    /\ SampleIdle
    /\ CreateIdle
    /\ FetcherIdle
    /\ TablesIdle
    /\ CrudIdle
    /\ TokenIdle
    /\ last_read = NoRead
    /\ connections = InitConnections
    /\ forecasts = StoredConfigs
    /\ methods_predict \in MethodLists
    /\ metrics_pc = "idle"
    /\ metrics_req = [organization_id |-> 0, data_name |-> "", start_date |-> "", end_date |-> ""]
    /\ df_merged = EmptyFrame
    /\ method_i = 0
    /\ metrics_resp = NoMetricsResp
    /\ real_table = <<>>
    /\ pred_tables = [m \in Methods |-> <<>>]
    /\ dates_pc = "start"
    /\ dates_req = [organization_id |-> 0, data_name |-> ""]
    /\ max_date = <<>>
    /\ earliest_date = <<>>
    /\ dates_i = 0
    /\ dates_resp = NoDatesResp

NextDates ==
    \/ DatesResolve
    \/ DatesFetchSource
    \/ DatesMethod
    \/ DatesRespond

SpecDates == InitDates /\ [][NextDates]_vars

-----------------------------------------------------------------------------
(* get_connection_tables, get_connection_table_columns and the engines     *)
(* they create (dbconnection_service.py)                                    *)

\* requests served one after another by the process
MaxEngines == 2

TableNames == {"a", "b"}

ColumnNames == {"id", "ts", "x", "user_id", "id_x"}

\* what the inspector of the customer database can answer
InspectedTables == SUBSET TableNames

InspectedColumns == SUBSET ColumnNames

\* col.lower() != "id" and not startswith("id_") and not endswith("_id")
filtered_columns(columns) == columns \ {"id", "user_id", "id_x"}

TablesRequests ==
    [op : {"tables", "columns"}, connection_id : ConnIds, org_id : OrgIds,
     table_name : TableNames]

TablesResp(code, msg, names) == [status |-> code, detail |-> msg, names |-> names]

TablesFail(code, msg) ==
    /\ tables_pc' = "error"
    /\ tables_resp' = TablesResp(code, msg, {})

\* the lookup of the connection and the check of its schema
TablesLookup ==
    /\ tables_pc = "start"
    /\ LET found == SelectConnection(tables_req.connection_id, tables_req.org_id)
       IN IF found = {}
            THEN TablesFail(404, "connection not found")
            ELSE IF Lower((CHOOSE c \in found : TRUE).connection_schema) # "postgresql"
                   THEN TablesFail(400, "schema not supported")
                   ELSE /\ tables_pc' = "fetch"
                        /\ tables_resp' = tables_resp
    /\ UNCHANGED <<crudVars, tokenVars, tables_req, engines, last_read, storeVars, dbVars, sampleVars,
                   createVars, metricsVars, fetcherVars, datesVars>>

\* fetch_postgres_tables / fetch_postgres_table_columns: create_async_engine,
\* connect, inspect, return.  Neither function disposes the engine, on the
\* return or when connect or the inspection raises; the endpoint turns the
\* exception into the answer 500.
TablesFetch ==
    /\ tables_pc = "fetch"
    /\ engines' = engines + 1
    /\ \E db_fails \in BOOLEAN :
          IF db_fails
            THEN TablesFail(500, "could not read the connection")
            ELSE /\ tables_pc' = "done"
                 /\ IF tables_req.op = "tables"
                      THEN \E tables \in InspectedTables :
                              tables_resp' = TablesResp(200, "", tables)
                      ELSE \E columns \in InspectedColumns :
                              tables_resp' = TablesResp(200, "", filtered_columns(columns))
    /\ UNCHANGED <<crudVars, tokenVars, tables_req, last_read, storeVars, dbVars, sampleVars,
                   createVars, metricsVars, fetcherVars, datesVars>>

\* the process serves its next request
TablesAgain ==
    /\ tables_pc \in {"done", "error"}
    /\ engines < MaxEngines
    /\ tables_pc' = "start"
    /\ tables_req' \in TablesRequests
    /\ tables_resp' = NoTablesResp
    /\ UNCHANGED <<crudVars, tokenVars, engines, last_read, storeVars, dbVars, sampleVars,
                   createVars, metricsVars, fetcherVars, datesVars>>

InitTables ==
    /\ CrudIdle
    /\ TokenIdle
    /\ SampleIdle
    /\ CreateIdle
    /\ MetricsIdle
    /\ FetcherIdle
    /\ DatesIdle
    /\ last_read = NoRead
    /\ connections = InitConnections
    /\ forecasts = {}
    /\ tables_pc = "start"
    /\ tables_req \in TablesRequests
    /\ tables_resp = NoTablesResp
    /\ engines = 0

NextTables ==
    \/ TablesLookup
    \/ TablesFetch
    \/ TablesAgain

SpecTables == InitTables /\ [][NextTables]_vars

-----------------------------------------------------------------------------
(* Concurrent requests on connections and forecast configurations:         *)
(* create_forecast_config, get_forecast_configs, delete_forecast,          *)
(* create_dbconnection, delete_dbconnection and the two lookups of         *)
(* get_forecast_service.py.  Every await of a handler is a point where     *)
(* another request may run.                                                *)

MaxCrudRequests == 2

CrudConnIds == {1, 2, 3}

CrudForecastIds == {1, 2, 3}

CrudTargets == {"x", "y"}

ConnectionNames == {"n1", "n2"}

DbNames == {"d1", "d2"}

\* the rows of ConnectionSettings the requests meet
CrudConnections ==
    { [id |-> 1, organization_id |-> 1, connection_schema |-> "PostgreSQL",
       connection_name |-> "n1", db_name |-> "d1", is_deleted |-> FALSE],
      [id |-> 2, organization_id |-> 2, connection_schema |-> "PostgreSQL",
       connection_name |-> "n1", db_name |-> "d1", is_deleted |-> FALSE] }

\* select(ScheduleForecasting).where(organization_id == ..., is_deleted IS NOT TRUE)
get_forecast_configs(store, organization_id) ==
    { f \in store : f.organization_id = organization_id /\ ~f.is_deleted }

\* the query of get_forecast_config_by_name_full without the organization
get_forecast_config_by_name_full_any(store, data_name, organization_id) ==
    { f \in store : f.data_name = data_name /\ ~f.is_deleted }

\* select(ScheduleForecasting).where(data_name == ..., organization_id == ...,
\*                                   is_deleted IS NOT TRUE)
get_forecast_config_by_name_full(store, data_name, organization_id) ==
    { f \in store : /\ f.data_name = data_name
                    /\ f.organization_id = organization_id
                    /\ ~f.is_deleted }

\* select(ConnectionSettings).where(organization_id == ..., id == ...,
\*                                  is_deleted IS NOT TRUE)
dbconnection_by_org_and_connection(store, organization_id, connection_id) ==
    { c \in store : /\ c.organization_id = organization_id
                    /\ c.id = connection_id
                    /\ ~c.is_deleted }

\* delete that removes the row of the table
delete_forecast_row(store, forecast_id) ==
    { f \in store : f.id # forecast_id }

\* forecast.is_deleted = True; session.add(forecast); commit
delete_forecast(store, forecast_id) ==
    { IF f.id = forecast_id THEN [f EXCEPT !.is_deleted = TRUE] ELSE f : f \in store }

\* update(ConnectionSettings).where(id == ..., organization_id == ...)
\*                           .values(is_deleted=True)
delete_dbconnection(store, connection_id, org_id) ==
    { IF c.id = connection_id /\ c.organization_id = org_id
      THEN [c EXCEPT !.is_deleted = TRUE] ELSE c : c \in store }

\* the calls a request may be
CrudCalls ==
    {[NoCall EXCEPT !.op = "create_forecast_config", !.pc = "lookup", !.org = o,
                    !.id = c, !.data_name = n, !.target_column = t] :
        o \in OrgIds, c \in CrudConnIds, n \in DataNames, t \in CrudTargets}
    \cup
    {[NoCall EXCEPT !.op = "delete_forecast", !.pc = "select", !.org = o, !.id = i] :
        o \in OrgIds, i \in CrudForecastIds}
    \cup
    {[NoCall EXCEPT !.op = "delete_dbconnection", !.pc = "select", !.org = o, !.id = c] :
        o \in OrgIds, c \in CrudConnIds}
    \cup
    {[NoCall EXCEPT !.op = "create_dbconnection", !.pc = "check_name", !.org = o,
                    !.connection_schema = sch, !.connection_name = n, !.db_name = d] :
        o \in OrgIds, sch \in {"PostgreSQL", "MySQL"}, n \in ConnectionNames, d \in DbNames}
    \cup
    {[NoCall EXCEPT !.op = "get_forecast_configs", !.pc = "read", !.org = o] : o \in OrgIds}
    \cup
    {[NoCall EXCEPT !.op = "get_forecast_config_by_name_full", !.pc = "read", !.org = o,
                    !.data_name = n] : o \in OrgIds, n \in DataNames}
    \cup
    {[NoCall EXCEPT !.op = "dbconnection_by_org_and_connection", !.pc = "read", !.org = o,
                    !.id = c] : o \in OrgIds, c \in CrudConnIds}

crudOthers == <<crud_nreq, tokenVars, tablesVars, datesVars, fetcherVars, metricsVars,
                createVars, sampleVars, storeVars, last_read>>

CrudGoto(p, pc) == crud_procs' = [crud_procs EXCEPT ![p].pc = pc]

CrudFail(p, code, msg) ==
    crud_procs' = [crud_procs EXCEPT ![p].pc = "error", ![p].status = code,
                                     ![p].detail = msg]

CrudDone(p, rows) ==
    crud_procs' = [crud_procs EXCEPT ![p].pc = "done", ![p].status = 200,
                                     ![p].rows = rows]

\* a request arrives at a free slot
CrudBegin(p) ==
    /\ crud_procs[p].pc \in {"idle", "done", "error"}
    /\ crud_nreq < MaxCrudRequests
    /\ crud_nreq' = crud_nreq + 1
    /\ \E call \in CrudCalls : crud_procs' = [crud_procs EXCEPT ![p] = call]
    /\ UNCHANGED <<dbVars, tokenVars, tablesVars, datesVars, fetcherVars, metricsVars,
                   createVars, sampleVars, storeVars, last_read>>

\* create_forecast_config, lines 160-174: the connection and its schema
CrudCreateLookup(p) ==
    LET call  == crud_procs[p]
        found == dbconnection_by_org_and_connection(connections, call.org, call.id)
    IN  /\ call.op = "create_forecast_config"
        /\ call.pc = "lookup"
        /\ IF found = {}
           THEN CrudFail(p, 404, "connection not found")
           ELSE IF Lower((CHOOSE c \in found : TRUE).connection_schema) # "postgresql"
           THEN CrudFail(p, 400, "schema not supported")
           ELSE CrudGoto(p, "check_name")
        /\ UNCHANGED <<dbVars, crudOthers>>

\* create_forecast_config, lines 176-183
CrudCreateCheckName(p) ==
    LET call == crud_procs[p]
    IN  /\ call.op = "create_forecast_config"
        /\ call.pc = "check_name"
        /\ IF get_forecast_config_by_name_full(forecasts, call.data_name, call.org) # {}
           THEN CrudFail(p, 400, "data_name exists")
           ELSE CrudGoto(p, "check_unique")
        /\ UNCHANGED <<dbVars, crudOthers>>

\* create_forecast_config, lines 186-195
CrudCreateCheckUnique(p) ==
    LET call == crud_procs[p]
    IN  /\ call.op = "create_forecast_config"
        /\ call.pc = "check_unique"
        /\ IF \E f \in get_forecast_configs(forecasts, call.org) :
                 /\ f.connection_id = call.id
                 /\ f.time_column = "ts"
                 /\ f.target_column = call.target_column
           THEN CrudFail(p, 400, "connection and columns exist")
           ELSE CrudGoto(p, "commit")
        /\ UNCHANGED <<dbVars, crudOthers>>

\* create_forecast_config, lines 197-255: the count of the source table, the
\* horizon and the commit; any failure of them is answered 500 and stores
\* nothing
CrudCreateCommit(p) ==
    LET call == crud_procs[p]
        req  == [organization_id |-> call.org, connection_id |-> call.id,
                 data_name |-> call.data_name, time_column |-> "ts",
                 target_column |-> call.target_column]
    IN  /\ call.op = "create_forecast_config"
        /\ call.pc = "commit"
        /\ \E fails \in BOOLEAN :
             IF fails
             THEN /\ CrudFail(p, 500, "could not create forecast config")
                  /\ forecasts' = forecasts
             ELSE /\ CrudDone(p, {})
                  /\ forecasts' = forecasts \cup
                        {NewForecast(req, [NoLocals EXCEPT !.discreteness = 600], 60)}
        /\ UNCHANGED <<connections, crudOthers>>

\* delete_forecast, lines 283-292
CrudDeleteForecastSelect(p) ==
    LET call == crud_procs[p]
    IN  /\ call.op = "delete_forecast"
        /\ call.pc = "select"
        /\ IF \E f \in get_forecast_configs(forecasts, call.org) : f.id = call.id
           THEN CrudGoto(p, "commit")
           ELSE CrudFail(p, 404, "forecast config not found or deleted")
        /\ UNCHANGED <<dbVars, crudOthers>>

\* delete_forecast, lines 293-301
CrudDeleteForecastCommit(p) ==
    LET call == crud_procs[p]
    IN  /\ call.op = "delete_forecast"
        /\ call.pc = "commit"
        /\ forecasts' = delete_forecast(forecasts, call.id)
        /\ CrudDone(p, {})
        /\ UNCHANGED <<connections, crudOthers>>

\* delete_dbconnection, lines 91-99
CrudDeleteConnectionSelect(p) ==
    LET call == crud_procs[p]
    IN  /\ call.op = "delete_dbconnection"
        /\ call.pc = "select"
        /\ IF dbconnection_by_org_and_connection(connections, call.org, call.id) # {}
           THEN CrudGoto(p, "commit")
           ELSE CrudFail(p, 404, "connection not found or deleted")
        /\ UNCHANGED <<dbVars, crudOthers>>

\* delete_dbconnection, lines 101-118
CrudDeleteConnectionCommit(p) ==
    LET call == crud_procs[p]
    IN  /\ call.op = "delete_dbconnection"
        /\ call.pc = "commit"
        /\ \E fails \in BOOLEAN :
             IF fails
             THEN /\ CrudFail(p, 500, "could not delete connection")
                  /\ connections' = connections
             ELSE /\ CrudDone(p, {})
                  /\ connections' = delete_dbconnection(connections, call.id, call.org)
        /\ UNCHANGED <<forecasts, crudOthers>>

\* create_dbconnection, lines 24-46: the schema, the test connection and the
\* check of the name; scalar_one_or_none raises on several rows, which is
\* answered 500
CrudConnectionCheckName(p) ==
    LET call == crud_procs[p]
        same == { c \in connections : /\ c.organization_id = call.org
                                      /\ ~c.is_deleted
                                      /\ c.connection_name = call.connection_name }
    IN  /\ call.op = "create_dbconnection"
        /\ call.pc = "check_name"
        /\ \E is_connection \in BOOLEAN :
             IF call.connection_schema # "PostgreSQL"
             THEN CrudFail(p, 400, "no such connection schema")
             ELSE IF ~is_connection
             THEN CrudFail(p, 500, "could not connect")
             ELSE IF Cardinality(same) > 1
             THEN CrudFail(p, 500, "could not create connection")
             ELSE IF same # {}
             THEN CrudFail(p, 400, "connection name in use")
             ELSE CrudGoto(p, "check_params")
        /\ UNCHANGED <<dbVars, crudOthers>>

\* create_dbconnection, lines 48-63
CrudConnectionCheckParams(p) ==
    LET call == crud_procs[p]
        same == { c \in connections : /\ c.organization_id = call.org
                                      /\ ~c.is_deleted
                                      /\ c.db_name = call.db_name }
    IN  /\ call.op = "create_dbconnection"
        /\ call.pc = "check_params"
        /\ IF Cardinality(same) > 1
           THEN CrudFail(p, 500, "could not create connection")
           ELSE IF same # {}
           THEN CrudFail(p, 400, "connection exists")
           ELSE CrudGoto(p, "insert")
        /\ UNCHANGED <<dbVars, crudOthers>>

\* create_dbconnection, lines 65-85
CrudConnectionInsert(p) ==
    LET call == crud_procs[p]
    IN  /\ call.op = "create_dbconnection"
        /\ call.pc = "insert"
        /\ \E fails \in BOOLEAN :
             IF fails
             THEN /\ CrudFail(p, 500, "could not create connection")
                  /\ connections' = connections
             ELSE /\ CrudDone(p, {})
                  /\ connections' = connections \cup
                        {[id |-> Cardinality(connections) + 1,
                          organization_id |-> call.org,
                          connection_schema |-> call.connection_schema,
                          connection_name |-> call.connection_name,
                          db_name |-> call.db_name,
                          is_deleted |-> FALSE]}
        /\ UNCHANGED <<forecasts, crudOthers>>

\* get_forecast_configs, get_forecast_config_by_name_full (the first row of
\* the query) and dbconnection_by_org_and_connection; no row is answered 404
CrudRead(p) ==
    LET call  == crud_procs[p]
        found == CASE call.op = "get_forecast_configs" ->
                        get_forecast_configs(forecasts, call.org)
                   [] call.op = "get_forecast_config_by_name_full" ->
                        get_forecast_config_by_name_full(forecasts, call.data_name, call.org)
                   [] OTHER ->
                        dbconnection_by_org_and_connection(connections, call.org, call.id)
    IN  /\ call.pc = "read"
        /\ IF found = {}
           THEN CrudFail(p, 404, "not found")
           ELSE IF call.op = "get_forecast_configs"
           THEN CrudDone(p, found)
           ELSE \E first \in found : CrudDone(p, {first})
        /\ UNCHANGED <<dbVars, crudOthers>>

InitCrud ==
    /\ SampleIdle
    /\ CreateIdle
    /\ MetricsIdle
    /\ FetcherIdle
    /\ DatesIdle
    /\ TablesIdle
    /\ TokenIdle
    /\ CrudIdle
    /\ last_read = NoRead
    /\ connections = CrudConnections
    /\ forecasts = {MetricsConfig}

NextCrud ==
    \E p \in CrudProcs :
        \/ CrudBegin(p)
        \/ CrudCreateLookup(p)
        \/ CrudCreateCheckName(p)
        \/ CrudCreateCheckUnique(p)
        \/ CrudCreateCommit(p)
        \/ CrudDeleteForecastSelect(p)
        \/ CrudDeleteForecastCommit(p)
        \/ CrudDeleteConnectionSelect(p)
        \/ CrudDeleteConnectionCommit(p)
        \/ CrudConnectionCheckName(p)
        \/ CrudConnectionCheckParams(p)
        \/ CrudConnectionInsert(p)
        \/ CrudRead(p)

SpecCrud == InitCrud /\ [][NextCrud]_vars

-----------------------------------------------------------------------------
(* TokenValidator; a dashboard request and a metrics request side by side   *)

\* the tokens a request may present
Tokens == {"t1", "t2"}

\* the contents of TOKENS_LIST for the service: no token, or one
TokenLists == {{}, {"t1"}}

\* lines 17-38: the tokens of the service in the file; a file without one
\* raises, and every exception is answered as the HTTPException of line 35
load_tokens ==
    IF tokens_list = {}
    THEN [exc |-> "HTTPException", tokens |-> {}]
    ELSE [exc |-> "none", tokens |-> tokens_list]

\* the validator refuses the request
TokenRefuse(r, code, msg) ==
    IF r = "metrics"
    THEN /\ MetricsFail(code, msg)
         /\ UNCHANGED <<fetcher_pc, fetcher_resp>>
    ELSE /\ FetcherFail(code, msg)
         /\ UNCHANGED <<metrics_pc, metrics_resp>>

\* line 52: the validator returns and the handler starts
TokenAccept(r) ==
    IF r = "metrics"
    THEN /\ metrics_pc' = "start"
         /\ UNCHANGED <<metrics_resp, fetcher_pc, fetcher_resp>>
    ELSE /\ fetcher_pc' = "start"
         /\ UNCHANGED <<fetcher_resp, metrics_pc, metrics_resp>>

\* (mutant of TokenCall: a failed load leaves an empty list in valid_tokens)
TokenCallCachesFailure(r) ==
    /\ (IF r = "metrics" THEN metrics_pc ELSE fetcher_pc) = "auth"
    /\ LET loaded == IF valid_tokens.loaded
                     THEN [exc |-> "none", tokens |-> valid_tokens.tokens]
                     ELSE load_tokens
       IN  IF loaded.exc # "none"
           THEN /\ valid_tokens' = [loaded |-> TRUE, tokens |-> {}]
                /\ TokenRefuse(r, 500, "token validation failed")
           ELSE /\ valid_tokens' = [loaded |-> TRUE, tokens |-> loaded.tokens]
                /\ IF credentials[r] \notin loaded.tokens
                   THEN TokenRefuse(r, 401, "unauthorized")
                   ELSE TokenAccept(r)
    /\ UNCHANGED <<crudVars, tokens_list, credentials, metrics_req, methods_predict, df_merged,
                   method_i, fetcher_req, df_last_real_data, fetcher_i, data_result,
                   metrics_table, table_to_download, storeVars, dbVars, sampleVars,
                   createVars, datesVars, tablesVars, last_read>>

\* lines 40-52: TokenValidator.__call__, which has no await: the tokens are
\* loaded when valid_tokens is None and kept; a load that raises leaves None;
\* a token that is not in the list is answered 401
TokenCall(r) ==
    /\ (IF r = "metrics" THEN metrics_pc ELSE fetcher_pc) = "auth"
    /\ LET loaded == IF valid_tokens.loaded
                     THEN [exc |-> "none", tokens |-> valid_tokens.tokens]
                     ELSE load_tokens
       IN  IF loaded.exc # "none"
           THEN /\ valid_tokens' = valid_tokens
                /\ TokenRefuse(r, 500, "token validation failed")
           ELSE /\ valid_tokens' = [loaded |-> TRUE, tokens |-> loaded.tokens]
                /\ IF credentials[r] \notin loaded.tokens
                   THEN TokenRefuse(r, 401, "unauthorized")
                   ELSE TokenAccept(r)
    /\ UNCHANGED <<crudVars, tokens_list, credentials, metrics_req, methods_predict, df_merged,
                   method_i, fetcher_req, df_last_real_data, fetcher_i, data_result,
                   metrics_table, table_to_download, storeVars, dbVars, sampleVars,
                   createVars, datesVars, tablesVars, last_read>>

\* the contents of the source table of the shared data store
SharedRealTables == {<<>>, <<[t |-> 0, v |-> 1], [t |-> 300, v |-> 2]>>}

\* the contents of a method's table of the shared data store
SharedPredTables ==
    {<<>>, <<[t |-> 0, v |-> 0]>>, <<[t |-> 300, v |-> 1], [t |-> 600, v |-> 2]>>}

\* a dashboard request and a metrics request arrive together, each with a
\* token; the data store has its contents and keeps them
InitConcurrent ==
    /\ DatesIdle
    /\ TablesIdle
    /\ CrudIdle
    /\ SampleIdle
    /\ CreateIdle
    /\ last_read = NoRead
    /\ connections = InitConnections
    /\ forecasts = StoredConfigs
    /\ methods_predict \in MethodLists
    /\ real_table \in SharedRealTables
    /\ pred_tables \in [Methods -> SharedPredTables]
    /\ tokens_list \in TokenLists
    /\ valid_tokens = NoTokens
    /\ credentials \in [Requests -> Tokens]
    /\ metrics_pc = "auth"
    /\ metrics_req = [organization_id |-> 0, data_name |-> "", start_date |-> "", end_date |-> ""]
    /\ df_merged = EmptyFrame
    /\ method_i = 0
    /\ metrics_resp = NoMetricsResp
    /\ fetcher_pc = "auth"
    /\ fetcher_req = [organization_id |-> 0, data_name |-> ""]
    /\ df_last_real_data = <<>>
    /\ fetcher_i = 0
    /\ data_result = NoDataResult
    /\ metrics_table = NoMetrixTables
    /\ table_to_download = NoTableToDownload
    /\ fetcher_resp = NoFetcherResp

NextConcurrent ==
    \/ \E r \in Requests : TokenCall(r)
    \/ MetricsResolve
    \/ MetricsFetchReal
    \/ MetricsMergeMethod
    \/ MetricsScore
    \/ FetcherResolve
    \/ FetcherFetchReal
    \/ FetcherMethod
    \/ FetcherRespond

SpecConcurrent == InitConcurrent /\ [][NextConcurrent]_vars

-----------------------------------------------------------------------------
(* Claims about fetch_metrics_by_date and calculate_metrics                *)

\* the request has read every table and has reached the scoring of line 256
Scored == metrics_pc \in {"done", "error"} /\ method_i > Len(methods_predict)

ConfiguredMethods == SeqToSet(methods_predict)

TimesOf(table) == {table[i].t : i \in 1..Len(table)}

\* the cells of a frame row that were read from table src
CellsFrom(r, src) == {k \in DOMAIN r.c : r.c[k].src = src}

\* the values a frame holds from table src, row by row
SeriesFrom(df, src) ==
    [i \in 1..Len(df.rows) |->
        df.rows[i].c[CHOOSE k \in CellsFrom(df.rows[i], src) : TRUE].v[1]]

\* C1: the metric set reported under method M is computed with the real
\* values of the source table as the true series and M's own predictions as
\* the predicted series (not between two methods' predictions, not from
\* another method's predictions, not with true and predicted swapped).
C1_TrueRealPredOwn ==
    metrics_pc = "done" =>
        \A i \in 1..Len(metrics_resp.data) :
            LET M == metrics_resp.data[i].method
            IN  /\ \A j \in 1..Len(df_merged.rows) :
                      /\ CellsFrom(df_merged.rows[j], "real") # {}
                      /\ CellsFrom(df_merged.rows[j], M) # {}
                /\ metrics_resp.data[i].metrics =
                      MetricSet(SeriesFrom(df_merged, "real"), SeriesFrom(df_merged, M))

\* the cumulative frame of fetch_metrics_by_date: in a scored row, a cell of
\* the real table and a cell of a method's table stand in the true column
\* and a scored column only if their timestamps differ by at most 300 seconds
CumulativeFramePairsWithinTolerance ==
    metrics_pc = "done" =>
        \A j \in 1..Len(df_merged.rows), k \in SeqToSet(ExistMethods(df_merged)) :
            LET a == df_merged.rows[j].c["target"]
                b == df_merged.rows[j].c[k]
            IN  ((a.src = "real") # (b.src = "real")) => Abs(a.t - b.t) <= Tolerance

\* the dashboard comparison of metrix_all: a row that carries a paired real
\* value has it from a real row at most 300 seconds from the predicted row
DashboardPairsWithinTolerance ==
    \A m \in Methods :
        \A i \in 1..Len(metrics_table[m]) :
            LET r == metrics_table[m][i]
            IN  r.c["target"].v # <<>> => Abs(r.c["target"].t - r.t) <= Tolerance

\* C2: in every scoring pathway (the cumulative frame of fetch_metrics_by_date
\* and the dashboard comparison of metrix_all) a predicted row is paired with
\* a real row only if their timestamps differ by at most 300 seconds; a row
\* with no partner within 300 seconds carries no paired value and is not
\* scored.
C2_PairedWithinTolerance ==
    /\ DashboardPairsWithinTolerance
    /\ CumulativeFramePairsWithinTolerance

\* C3: when a method's series has no timestamp within 300 seconds of any
\* real timestamp, the request raises no error and completes.
OutOfTolerance(M) ==
    /\ pred_tables[M] # <<>>
    /\ real_table # <<>>
    /\ \A p \in TimesOf(pred_tables[M]), r \in TimesOf(real_table) : Abs(p - r) > Tolerance

C3_OutOfToleranceNoError ==
    (Scored /\ \E M \in ConfiguredMethods : OutOfTolerance(M)) =>
        /\ metrics_pc = "done"
        /\ metrics_resp.status = 200

\* C4: when the real series and every predicted series have identical
\* timestamp sets, the aligned frame has as many rows as the real series and
\* the reported MAE of each method is mean(|true - pred|) over those rows
\* (as reported: rounded to two decimals).
IdenticalTimestamps ==
    \A M \in ConfiguredMethods : TimesOf(pred_tables[M]) = TimesOf(real_table)

ClaimedMAE(M) ==
    Round2(Num(SeqSum([i \in 1..Len(real_table) |->
                         Abs(real_table[i].v - pred_tables[M][i].v)]),
               Len(real_table)))

C4_IdenticalTimestamps ==
    (Scored /\ IdenticalTimestamps /\ real_table # <<>>) =>
        /\ metrics_pc = "done"
        /\ Len(df_merged.rows) = Len(real_table)
        /\ \A i \in 1..Len(metrics_resp.data) :
              metrics_resp.data[i].metrics.MAE = ClaimedMAE(metrics_resp.data[i].method)

\* C5: every value of the metric report is a finite number, and when some
\* true value is 0 the MAPE is reported as 0.
C5_FiniteMetrics ==
    metrics_pc = "done" =>
        \A i \in 1..Len(metrics_resp.data) :
            LET m == metrics_resp.data[i].metrics
            IN  /\ m.MAE.kind = "num" /\ m.RMSE.kind = "num"
                /\ m.R2.kind = "num" /\ m.MAPE.kind = "num"
                /\ (\E j \in 1..Len(df_merged.rows) : df_merged.rows[j].c["target"].v = <<0>>)
                      => m.MAPE.h = 0

\* the rows of a table that a request of the stored range reads
ReadInRange(table) ==
    fetch_data_in_range(table, metrics_req.start_date, metrics_req.end_date, FALSE).rows

\* the running frame after the first k methods of a list, on the tables the
\* request has read
RECURSIVE MergedAfter(_, _)
MergedAfter(list, k) ==
    IF k = 0 THEN FrameOf(SortRows(ReadInRange(real_table)), "real")
    ELSE merge_method(MergedAfter(list, k - 1), list[k], ReadInRange(pred_tables[list[k]]))

\* what fetch_metrics_by_date answers for a list of methods on the tables the
\* request has read
ReportFor(list) ==
    calculate_metrics(DropNa(MergedAfter(list, Len(list))),
                      ExistMethods(MergedAfter(list, Len(list))))

\* C23: the metric set that fetch_metrics_by_date reports for a method does
\* not depend on where the method stands in the configured list: on the same
\* tables the list in the opposite order gives the same set for every method,
\* only the order of the entries may differ.
C23_OrderIndependent ==
    (metrics_pc = "done" /\ Len(methods_predict) = 2) =>
        /\ ReportFor(methods_predict).results = metrics_resp.data
        /\ ReportFor(Reverse(methods_predict)).exc = "none"
        /\ SeqToSet(ReportFor(Reverse(methods_predict)).results) = SeqToSet(metrics_resp.data)

-----------------------------------------------------------------------------
(* Claims about the reads of the data stores                               *)

\* C11: each of the three reads (get_table_data_df, get_forecast_data_df_from_date,
\* fetch_data_in_range) yields an empty window, and never an error, whenever
\* the backend query fails or returns zero rows.
C11_ReadsYieldEmptyWindow ==
    (last_read.op # "" /\ (last_read.db_fails \/ last_read.matched = 0)) =>
        /\ last_read.exc = "none"
        /\ last_read.nrows = 0

\* C12: every window read from a data store while serving data_fetcher or
\* fetch_metrics_by_date, from the source table and from every method's
\* table, holds at most 300 rows.
C12_WindowAtMostLimit == last_read.nrows <= LIMIT

\* the latest read was of a method's table and failed or matched no row
PredictionReadFailedOrEmpty ==
    /\ last_read.src \in Methods
    /\ (last_read.db_fails \/ last_read.matched = 0)

\* C13: a failed or empty read of a prediction source never fails the
\* request, in data_fetcher and in fetch_metrics_by_date: the request goes
\* on, and that method is absent from the result.
C13_PredictionReadNeverFatal ==
    PredictionReadFailedOrEmpty =>
        /\ ~(metrics_pc = "error" /\ ~Scored)
        /\ fetcher_pc # "error"
        /\ metrics_pc = "done" =>
              \A i \in 1..Len(metrics_resp.data) :
                  metrics_resp.data[i].method # last_read.src
        /\ metrics_table[last_read.src] = <<>>

\* C14: a failed or empty read of the source table is fatal to the request:
\* data_fetcher and fetch_metrics_by_date end in an error and return no
\* payload or metric map, whatever the methods' tables contain.
C14_AnchorFailureFatal ==
    /\ metrics_pc = "done" =>
          RangeMatched(real_table, metrics_req.start_date, metrics_req.end_date) # 0
    /\ fetcher_pc = "done" => df_last_real_data # <<>>
    /\ (last_read.src = "real" /\ last_read.db_fails) =>
          /\ metrics_pc \in {"idle", "error"}
          /\ fetcher_pc \in {"idle", "error"}

-----------------------------------------------------------------------------
(* Claims about the payload of data_fetcher                                *)

\* C15: data_fetcher on a configuration with zero methods and a non-empty
\* window of the source table does not raise; its payload has non-empty
\* last_real_data and empty per-method sections (forecast segments, metric
\* tables, table_to_download).
C15_NoMethodsPayload ==
    (methods_predict = <<>> /\ df_last_real_data # <<>>) =>
        /\ fetcher_pc \in {"loop", "done"}
        /\ fetcher_pc = "done" =>
              /\ fetcher_resp.status = 200
              /\ fetcher_resp.view.data.last_real_data = df_last_real_data
              /\ fetcher_resp.view.data.last_real_data # <<>>
              /\ fetcher_resp.view.data.actual_prediction_xgboost = <<>>
              /\ fetcher_resp.view.data.actual_prediction_lstm = <<>>
              /\ fetcher_resp.view.metrix_tables = NoMetrixTables
              /\ fetcher_resp.view.table_to_download.rows = <<>>

C15_Witness ==
    /\ fetcher_pc = "done"
    /\ methods_predict = <<>>
    /\ Len(fetcher_resp.view.data.last_real_data) = 2

\* the display segment of a method: the rows of its table read by
\* data_fetcher that lie after the last real timestamp
DisplayRows(m) ==
    SelectSeq(get_forecast_data_df_from_date(pred_tables[m], df_last_real_data[1].t,
                                             LIMIT, FALSE),
              LAMBDA r : r.t > df_last_real_data[Len(df_last_real_data)].t)

\* C17: when XGBoost and LSTM are both configured and both have rows in the
\* display segment, table_to_download holds XGBoost's forecast rows with
\* LSTM's values as an extra column; XGBoost's rows are not lost because LSTM
\* was processed.
C17_DownloadKeepsPrimaryRows ==
    (/\ fetcher_pc = "done"
     /\ {"XGBoost", "LSTM"} \subseteq ConfiguredMethods
     /\ DisplayRows("XGBoost") # <<>>
     /\ DisplayRows("LSTM") # <<>>) =>
        /\ fetcher_resp.view.table_to_download.lstm
        /\ \A i \in 1..Len(DisplayRows("XGBoost")) :
              \E j \in 1..Len(fetcher_resp.view.table_to_download.rows) :
                  fetcher_resp.view.table_to_download.rows[j] = DisplayRows("XGBoost")[i]

\* data_fetcher has run the iteration of method m
Processed(m) ==
    /\ fetcher_pc \in {"loop", "done"}
    /\ \E i \in 1..(fetcher_i - 1) : methods_predict[i] = m

\* the rows data_fetcher fetched for method m
FetchedFor(m) ==
    get_forecast_data_df_from_date(pred_tables[m], df_last_real_data[1].t, LIMIT, FALSE)

last_known_time == df_last_real_data[Len(df_last_real_data)].t

\* the predicted cell of a row of a comparison table, whatever its column is called
PredCell(row) == row.c[CHOOSE k \in DOMAIN row.c : k # "target"]

\* the rows of method m that its comparison table was built from
RowsScored(m) ==
    [i \in 1..Len(metrics_table[m]) |->
        [t |-> PredCell(metrics_table[m][i]).t, v |-> PredCell(metrics_table[m][i]).v[1]]]

\* the chart section of method m
ChartSection(m) ==
    IF m = "XGBoost" THEN data_result.actual_prediction_xgboost
    ELSE data_result.actual_prediction_lstm

\* the forecast rows of method m that the chart shows after the prefixed last
\* real point
RowsShown(m) == IF ChartSection(m) = <<>> THEN <<>> ELSE Tail(ChartSection(m))

\* C22: with last_known_time the greatest timestamp of the anchor window,
\* every row fetched for a method is in exactly one of two segments: the rows
\* at or before last_known_time, which are the rows its comparison table is
\* built from, and the rows after it, which are the forecast rows shown; no
\* row is in both and none is dropped.
C22_SegmentsPartitionFetched ==
    \A m \in Methods :
        (Processed(m) /\ FetchedFor(m) # <<>>) =>
            /\ RowsScored(m) \o RowsShown(m) = FetchedFor(m)
            /\ \A i \in 1..Len(RowsScored(m)) : RowsScored(m)[i].t <= last_known_time
            /\ \A i \in 1..Len(RowsShown(m)) : RowsShown(m)[i].t > last_known_time

C22_Witness ==
    /\ fetcher_pc = "done"
    /\ \E m \in Methods :
          /\ Processed(m)
          /\ RowsScored(m) # <<>>
          /\ RowsShown(m) # <<>>
          /\ RowsScored(m)[Len(RowsScored(m))].t = last_known_time

\* C29: whenever the prediction table of a configured method holds a row
\* later than last_known_time, the chart section of the method holds at least
\* one forecast row after the prefixed last real point, however many
\* prediction rows lie between the first and the last timestamp of the anchor
\* window.
C29_FutureRowsShown ==
    \A m \in Methods :
        (/\ Processed(m)
         /\ \E i \in 1..Len(pred_tables[m]) : pred_tables[m][i].t > last_known_time) =>
            Len(ChartSection(m)) >= 2

\* C30: the comparison table filed under method M in the payload is built
\* only from M's own rows at or before last_known_time against the anchor
\* window, and carries M's predicted values in a column named M.
C30_TableCarriesOwnColumn ==
    \A m \in Methods :
        fetcher_pc = "done" =>
            LET table   == fetcher_resp.view.metrix_tables[m]
                fetched == FetchedFor(m)
                scored  == SelectSeq(fetched, LAMBDA r : r.t <= last_known_time)
            IN  /\ \A i \in 1..Len(table) : DOMAIN table[i].c = {"target", m}
                /\ \A i \in 1..Len(table) :
                      /\ table[i].c[m].src = m
                      /\ table[i].c["target"].src = "real"
                      /\ \E j \in 1..Len(scored) :
                            /\ scored[j].t = table[i].t
                            /\ table[i].c[m].v = <<scored[j].v>>

-----------------------------------------------------------------------------
(* Claims about the errors of the requests                                 *)

\* the answers of fetch_metrics_by_date to a request it cannot resolve
MetricsResolutionErrors ==
    {"bad request", "forecast config not found", "no forecast methods",
     "connection not found", "connection not supported"}

\* C18: an unparseable start_date or end_date given to fetch_metrics_by_date
\* is surfaced to the caller as a specific invalid-date-format error, not as
\* the generic processing failure, and the request does not go on.
C18_InvalidDateSurfaced ==
    (/\ metrics_pc \notin {"idle", "start", "real"}
     /\ metrics_resp.detail \notin MetricsResolutionErrors
     /\ \/ metrics_req.start_date \notin DOMAIN DateValue
        \/ metrics_req.end_date \notin DOMAIN DateValue) =>
        /\ metrics_pc = "error"
        /\ metrics_resp.detail = "invalid date format"

\* the live configurations a request names
ConfigsOf(req) ==
    {f \in LiveForecasts(req.organization_id) : f.data_name = req.data_name}

\* the connection of the configuration a request names, if it is live
ConnectionsOf(req) ==
    IF ConfigsOf(req) = {} THEN {}
    ELSE SelectConnection((CHOOSE f \in ConfigsOf(req) : TRUE).connection_id,
                          req.organization_id)

MetricsConfigUnresolvable ==
    metrics_req.organization_id # 0 /\ ConfigsOf(metrics_req) = {}

MetricsConnectionUnresolvable ==
    /\ ConfigsOf(metrics_req) # {}
    /\ methods_predict # <<>>
    /\ ConnectionsOf(metrics_req) = {}

MetricsAnchorReadFailed == last_read.src = "real" /\ last_read.db_fails

\* C19 (as stated): whenever fetch_metrics_by_date fails fatally (the read of
\* the source table fails, the configuration or the connection cannot be
\* resolved), the caller sees the generic processing-failed message and not
\* the specific cause.
C19_GenericOnFatal ==
    (/\ metrics_pc = "error"
     /\ \/ MetricsConfigUnresolvable
        \/ MetricsConnectionUnresolvable
        \/ MetricsAnchorReadFailed) =>
        metrics_resp.detail = "error while processing data"

\* C19 (amended): when fetch_metrics_by_date fails because the configuration
\* or the connection cannot be resolved, the caller sees that specific cause
\* with status 404; the generic processing-failed message with status 500 is
\* what the caller sees when the read of the source table fails.
C19_SpecificUnlessReadFails ==
    metrics_pc = "error" =>
        /\ MetricsConfigUnresolvable =>
              /\ metrics_resp.status = 404
              /\ metrics_resp.detail = "forecast config not found"
        /\ MetricsConnectionUnresolvable =>
              /\ metrics_resp.status = 404
              /\ metrics_resp.detail = "connection not found"
        /\ MetricsAnchorReadFailed =>
              /\ metrics_resp.status = 500
              /\ metrics_resp.detail = "error while processing data"

C19_Witness ==
    /\ metrics_pc = "error"
    /\ MetricsConnectionUnresolvable
    /\ metrics_resp.detail = "connection not found"

\* data_fetcher answers each of the three failures with its specific cause
DashboardFailuresSpecific ==
    fetcher_pc = "error" =>
        /\ (fetcher_req.organization_id # 0 /\ ConfigsOf(fetcher_req) = {}) =>
              fetcher_resp.detail = "forecast config not found"
        /\ (ConfigsOf(fetcher_req) # {} /\ ConnectionsOf(fetcher_req) = {}) =>
              fetcher_resp.detail = "connection not found"
        /\ (last_read.src = "real" /\ (last_read.db_fails \/ last_read.matched = 0)) =>
              fetcher_resp.detail = "no data to analyse"

-----------------------------------------------------------------------------
(* Claims about fetch_possible_date_for_metrix                             *)

\* the timestamps of the tables of the configured methods
PredictionTimes == UNION {TimesOf(pred_tables[m]) : m \in ConfiguredMethods}

-----------------------------------------------------------------------------
(* Claims about the engines of the customer databases                      *)

\* C20: every engine created from the stored credentials of a connection
\* while a request is served is disposed before the request ends, on the
\* success path and on every error path: once the request has its answer,
\* no engine created for it is left undisposed.
C20_EnginesDisposed ==
    tables_pc \in {"done", "error"} => engines = 0

-----------------------------------------------------------------------------
(* Claims about the stored connections and forecast configurations         *)

LiveConfigs == { f \in forecasts : ~f.is_deleted }

\* C24: after any interleaving of create_forecast_config and delete_forecast
\* requests, two create requests that suspend at their awaits included, an
\* organization has at most one live configuration per data_name and at most
\* one live configuration per (connection_id, time_column, target_column).
C24_UniqueLiveConfigs ==
    \A f \in LiveConfigs, g \in LiveConfigs :
        (f # g /\ f.organization_id = g.organization_id) =>
            /\ f.data_name # g.data_name
            /\ <<f.connection_id, f.time_column, f.target_column>> #
               <<g.connection_id, g.time_column, g.target_column>>

\* C25: after any sequence of create and delete operations on connections
\* and forecast configurations, every live forecast configuration references a
\* live connection of its own organization.
C25_ConfigHasLiveConnection ==
    \A f \in LiveConfigs :
        dbconnection_by_org_and_connection(connections, f.organization_id,
                                           f.connection_id) # {}

\* the rows of a table that belong to an organization
OwnRows(store, o) == { r \in store : r.organization_id = o }

\* what a read answers on the rows of the caller's organization alone
ReadOnOwnRows(call) ==
    CASE call.op = "get_forecast_configs" ->
            get_forecast_configs(OwnRows(forecasts, call.org), call.org)
      [] call.op = "get_forecast_config_by_name_full" ->
            get_forecast_config_by_name_full(OwnRows(forecasts, call.org),
                                             call.data_name, call.org)
      [] OTHER ->
            dbconnection_by_org_and_connection(OwnRows(connections, call.org),
                                               call.org, call.id)

\* a read of request p answers in this step what the rows of its own
\* organization alone determine
ReadsOwnRowsOnly(p) ==
    (crud_procs[p].pc = "read" /\ crud_procs'[p].pc \in {"done", "error"}) =>
        LET found == ReadOnOwnRows(crud_procs[p])
        IN  IF found = {}
            THEN crud_procs'[p].status = 404 /\ crud_procs'[p].rows = {}
            ELSE /\ crud_procs'[p].status = 200
                 /\ crud_procs'[p].rows # {}
                 /\ crud_procs'[p].rows \subseteq found
                 /\ crud_procs[p].op = "get_forecast_configs" => crud_procs'[p].rows = found

\* the rows of organization o change only in a step of a request of o
ChangedByOwnRequest(o) ==
    (\/ OwnRows(forecasts, o)' # OwnRows(forecasts, o)
     \/ OwnRows(connections, o)' # OwnRows(connections, o)) =>
        \E p \in CrudProcs : crud_procs[p].org = o /\ crud_procs'[p] # crud_procs[p]

RowsKeptOrMarked ==
    \A f \in forecasts :
        \E g \in forecasts' :
            /\ g.id = f.id
            /\ g = f \/ g = [f EXCEPT !.is_deleted = TRUE]

\* a read returns stored rows that are not deleted
ReadsLiveRows(p) ==
    (/\ crud_procs[p].op \in {"get_forecast_configs", "get_forecast_config_by_name_full"}
     /\ crud_procs[p].pc = "read"
     /\ crud_procs'[p].pc = "done") =>
        \A r \in crud_procs'[p].rows : r \in forecasts /\ ~r.is_deleted

\* a delete_forecast that succeeds leaves the configuration deleted
DeleteMarks(p) ==
    (/\ crud_procs[p].op = "delete_forecast"
     /\ crud_procs[p].pc = "commit"
     /\ crud_procs'[p].pc = "done") =>
        \E f \in forecasts' : f.id = crud_procs[p].id /\ f.is_deleted

\* a delete_forecast that looks up a deleted configuration is answered 404 and
\* changes nothing
FurtherDeleteFails(p) ==
    (/\ crud_procs[p].op = "delete_forecast"
     /\ crud_procs[p].pc = "select"
     /\ crud_procs'[p].pc # "select"
     /\ \E f \in forecasts : f.id = crud_procs[p].id /\ f.is_deleted) =>
        /\ crud_procs'[p].pc = "error"
        /\ crud_procs'[p].status = 404
        /\ forecasts' = forecasts

\* C27: logical deletion is permanent and exact.  Once delete_forecast has
\* succeeded the configuration is not returned by a later lookup of
\* get_forecast_configs or get_forecast_config_by_name_full (the lookup of
\* data_fetcher and fetch_metrics_by_date) and its is_deleted flag stays set; a
\* further delete of the id is answered 404 and changes nothing; no step
\* removes a stored configuration or changes another field of it.
C27_DeletionPermanent ==
    [][/\ RowsKeptOrMarked
       /\ \A p \in CrudProcs : ReadsLiveRows(p) /\ DeleteMarks(p) /\ FurtherDeleteFails(p)]_vars

\* configuration 1 was deleted and a further delete of it was answered 404
C27_Witness ==
    /\ \E f \in forecasts : f.id = 1 /\ f.is_deleted
    /\ \E p \in CrudProcs :
          /\ crud_procs[p].op = "delete_forecast"
          /\ crud_procs[p].org = 1
          /\ crud_procs[p].id = 1
          /\ crud_procs[p].pc = "error"
          /\ crud_procs[p].status = 404

\* C28: a create_forecast_config that ends in an error leaves the stored
\* configurations exactly as they were before the call: the store changes only
\* in the step that ends a call in success, and no step of a call that ends in
\* an error changes it.
C28_FailedCreateChangesNothing ==
    [][/\ (forecasts' # forecasts) => (create_pc = "store" /\ create_pc' = "done")
       /\ (create_pc' = "error") => (forecasts' = forecasts)]_vars

\* with a configuration stored, a later create failed at the commit step, after
\* both uniqueness checks had passed
C28_Witness ==
    /\ forecasts # {}
    /\ create_pc = "error"
    /\ create_resp.status = 500
    /\ create_loc.horizon_count # 0
    /\ create_loc.time_interval # "week"
    /\ create_loc.discreteness # 0

-----------------------------------------------------------------------------
(* Claims about requests that run side by side                             *)

\* what the validator answers a request that is alone: 500 when the tokens
\* cannot be loaded, 401 for a token that is not in the list, 0 to go on
AloneToken(r) ==
    LET loaded == load_tokens
    IN  IF loaded.exc # "none" THEN [status |-> 500, detail |-> "token validation failed"]
        ELSE IF credentials[r] \notin loaded.tokens
        THEN [status |-> 401, detail |-> "unauthorized"]
        ELSE [status |-> 0, detail |-> ""]

\* what the resolution of configuration and connection answers a request that
\* is alone; fetch_metrics_by_date also refuses an empty method list
AloneResolve(organization_id, data_name, needs_methods) ==
    LET cfgs == get_forecast_config_by_name_full(forecasts, data_name, organization_id)
    IN  IF organization_id = 0 THEN [status |-> 400, detail |-> "bad request"]
        ELSE IF cfgs = {} THEN [status |-> 404, detail |-> "forecast config not found"]
        ELSE IF needs_methods /\ methods_predict = <<>>
        THEN [status |-> 404, detail |-> "no forecast methods"]
        ELSE LET found == dbconnection_by_org_and_connection(
                              connections, organization_id,
                              (CHOOSE f \in cfgs : TRUE).connection_id)
             IN  IF found = {} THEN [status |-> 404, detail |-> "connection not found"]
                 ELSE IF (CHOOSE c \in found : TRUE).connection_schema # "PostgreSQL"
                 THEN [status |-> 400, detail |-> "connection not supported"]
                 ELSE [status |-> 0, detail |-> ""]

\* the response of the metrics request, had it run alone on the data store
AloneMetricsResp ==
    LET token    == AloneToken("metrics")
        resolved == AloneResolve(metrics_req.organization_id, metrics_req.data_name, TRUE)
        read     == fetch_data_in_range(real_table, metrics_req.start_date,
                                        metrics_req.end_date, FALSE)
        report   == ReportFor(methods_predict)
    IN  IF token.status # 0 THEN MetricsResp(token.status, token.detail)
        ELSE IF resolved.status # 0 THEN MetricsResp(resolved.status, resolved.detail)
        ELSE IF read.exc # "none" \/ report.exc # "none"
        THEN MetricsResp(500, "error while processing data")
        ELSE [status |-> 200, detail |-> "", data |-> report.results]

\* data_result, metrics_table and table_to_download of a dashboard request
\* that is alone, after the first k methods
RECURSIVE FetchedAfter(_)
FetchedAfter(k) ==
    LET df == get_table_data_df(real_table, LIMIT, FALSE)
    IN  IF k = 0
        THEN [data_result |-> [NoDataResult EXCEPT !.last_real_data = df],
              table_to_download |-> NoTableToDownload,
              metrics_table |-> NoMetrixTables]
        ELSE FetcherIteration(FetchedAfter(k - 1), df, methods_predict[k],
                              get_forecast_data_df_from_date(
                                  pred_tables[methods_predict[k]], df[1].t, LIMIT, FALSE))

\* the response of the dashboard request, had it run alone on the data store
AloneFetcherResp ==
    LET token    == AloneToken("dashboard")
        resolved == AloneResolve(fetcher_req.organization_id, fetcher_req.data_name, FALSE)
        df       == get_table_data_df(real_table, LIMIT, FALSE)
        fetched  == FetchedAfter(Len(methods_predict))
    IN  IF token.status # 0 THEN FetcherResp(token.status, token.detail)
        ELSE IF resolved.status # 0 THEN FetcherResp(resolved.status, resolved.detail)
        ELSE IF df = <<>> THEN FetcherResp(404, "no data to analyse")
        ELSE [status |-> 200, detail |-> "",
              view |-> generane_responce(fetched.data_result, df[Len(df)].t,
                                         fetched.metrics_table["XGBoost"],
                                         fetched.metrics_table["LSTM"],
                                         fetched.table_to_download)]

\* C21: under every interleaving of a dashboard request and a metrics request
\* at their awaits, each request that has ended carries the response it would
\* have produced alone for its token and its inputs on the same contents of
\* the data store.
C21_ConcurrentAsAlone ==
    /\ metrics_pc \in {"done", "error"} => metrics_resp = AloneMetricsResp
    /\ fetcher_pc \in {"done", "error"} => fetcher_resp = AloneFetcherResp

\* the metrics request has ended with metric sets while the dashboard request
\* is between two iterations of its loop, and the latest read of the data
\* store was one of the metrics request
C21_Witness ==
    /\ metrics_pc = "done"
    /\ metrics_resp.data # <<>>
    /\ fetcher_pc = "loop"
    /\ fetcher_i = 2
    /\ Len(methods_predict) = 2
    /\ data_result.actual_prediction_xgboost # <<>>
    /\ last_read.op = "fetch_range"

=============================================================================
